---- MODULE Spec2Model ----
(***************************************************************************)
(* A model of the qutility tools: the layer renamer, the overlaps counter, *)
(* the batch converter and the feature excluder.  Every tool is a          *)
(* controller bound to its own dialog; the tools share no state, so each   *)
(* tool has its own variables, its own initial predicate and its own       *)
(* specification.  The variable `tool` names the tool a behaviour is about.*)
(***************************************************************************)
EXTENDS Integers, Sequences, FiniteSets, TLC

VARIABLES
    tool,
    \* layer renamer
    lrNames, lrOld, lrArgs, lrRenamed, lrErrors, lrOutcome, lrRunEnabled,
    \* overlaps counter
    ocPc, ocCanceled, ocCanceledAt, ocRan, ocStep, ocResult, ocParams,
    \* convert_to_mapinfo of the batch converter
    miPc, miTemp, miOut, miReproject, miAttempted, miSucceeded, miCommands, miResult,
    \* start_conversion of the batch converter
    bcPc, bcRows, bcTable, bcProcessed, bcRow, bcFile, bcSuccess, bcError, bcFormat,
    bcSort, bcSingle, bcGpkgExists, bcLoopEntered, bcOutcome, bcRunEnabled,
    bcCrsChecked, bcForced, bcCount,
    \* the feature excluder: the two layers, the widgets, one run of exclude_features
    feSrc, feCmp, feSame, feVisible, feProvider, feEditable,
    feCheckGeom, feTol, feSpat, feSpatEnabled, feTolEnabled, feControls,
    fePc, feOutcome, feRun, feCandidates, feDifferent, feTable, feSelected,
    feToDelete, feLog,
    \* the layer loader: the dialog, the disk, the project layer tree, one load
    ldDialog, ldFiles, ldGroups, ldLayers, ldCreated,
    ldPc, ldRunEnabled, ldLoaded, ldTotal, ldOutcome, ldBefore

lrVars == <<lrNames, lrOld, lrArgs, lrRenamed, lrErrors, lrOutcome, lrRunEnabled>>
ocVars == <<ocPc, ocCanceled, ocCanceledAt, ocRan, ocStep, ocResult, ocParams>>
miVars == <<miPc, miTemp, miOut, miReproject, miAttempted, miSucceeded, miCommands,
           miResult>>
bcVars == <<bcPc, bcRows, bcTable, bcProcessed, bcRow, bcFile, bcSuccess, bcError,
           bcFormat, bcSort, bcSingle, bcGpkgExists, bcLoopEntered, bcOutcome,
           bcRunEnabled, bcCrsChecked, bcForced, bcCount>>
feLayerVars == <<feSrc, feCmp, feSame, feVisible, feProvider, feEditable>>
feWidgetVars == <<feCheckGeom, feTol, feSpat, feSpatEnabled, feTolEnabled, feControls>>
feRunVars == <<fePc, feOutcome, feRun, feCandidates, feDifferent, feTable, feSelected,
               feToDelete, feLog>>
feVars == <<feLayerVars, feWidgetVars, feRunVars>>
ldVars == <<ldDialog, ldFiles, ldGroups, ldLayers, ldCreated, ldPc, ldRunEnabled,
           ldLoaded, ldTotal, ldOutcome, ldBefore>>
vars == <<tool, lrVars, ocVars, miVars, bcVars, feVars, ldVars>>

(***************************************************************************)
(* Bounds of the model.                                                    *)
(***************************************************************************)
MaxNameLen == 2
MaxRows == 2
MaxFiles == 2

\* The characters layer names and the text fields are made of.
Alphabet == {"a", "b"}

RECURSIVE StrsOfLen(_)
StrsOfLen(n) ==
    IF n = 0 THEN {<<>>}
    ELSE {<<c>> \o s : c \in Alphabet, s \in StrsOfLen(n - 1)}

Strs(n) == UNION {StrsOfLen(k) : k \in 0..n}

(***************************************************************************)
(*                         LAYER RENAMER                                   *)
(***************************************************************************)
LrLayers == {1, 2}
LrNameSet == Strs(MaxNameLen)
LrPrefixes == {<<>>, <<"a">>}
LrSuffixes == {<<>>, <<"b">>}
LrSearches == {<<>>, <<"a">>, <<"a", "b">>}
LrReplacements == {<<>>, <<"b">>}
LrRemoveCounts == 0..(MaxNameLen + 1)
\* The text of a number field: a number, or text int() rejects.
LrNumberTexts == LrRemoveCounts \cup {-1}

LrNoArgs ==
    [prefix |-> <<>>, suffix |-> <<>>, search |-> <<>>, replace |-> <<>>,
     left |-> 0, right |-> 0, selected |-> {}]

\* new_name[remove_left:] behind `if remove_left > 0`
RemoveLeft(s, k) ==
    IF k > 0
    THEN IF Len(s) > k THEN SubSeq(s, k + 1, Len(s)) ELSE <<>>
    ELSE s

\* new_name[:-remove_right] behind `if remove_right > 0 and new_name`
RemoveRight(s, k) ==
    IF k > 0 /\ s # <<>>
    THEN IF Len(s) > k THEN SubSeq(s, 1, Len(s) - k) ELSE <<>>
    ELSE s

\* str.replace: the occurrences are found left to right and do not overlap.
RECURSIVE StrReplace(_, _, _)
StrReplace(s, old, new) ==
    IF Len(s) < Len(old) THEN s
    ELSE IF SubSeq(s, 1, Len(old)) = old
         THEN new \o StrReplace(SubSeq(s, Len(old) + 1, Len(s)), old, new)
         ELSE <<Head(s)>> \o StrReplace(Tail(s), old, new)

\* `if search_text and new_name: new_name = new_name.replace(...)`
ReplaceText(s, search, replace) ==
    IF search # <<>> /\ s # <<>> THEN StrReplace(s, search, replace) ELSE s

AddPrefix(s, prefix) == IF prefix # <<>> THEN prefix \o s ELSE s

AddSuffix(s, suffix) == IF suffix # <<>> THEN s \o suffix ELSE s

\* The loop body with the replacement done before the characters are removed.
NewNameMutant(old, a) ==
    AddSuffix(
        AddPrefix(
            RemoveRight(RemoveLeft(ReplaceText(old, a.search, a.replace), a.left),
                        a.right),
            a.prefix),
        a.suffix)

\* The body of the loop of rename_layers, up to the emptiness test.
NewName(old, a) ==
    AddSuffix(
        AddPrefix(
            ReplaceText(RemoveRight(RemoveLeft(old, a.left), a.right),
                        a.search, a.replace),
            a.prefix),
        a.suffix)

\* The renamer before any use, when a behaviour is about another tool.
LrIdle ==
    /\ lrNames = [n \in LrLayers |-> <<>>] /\ lrOld = lrNames
    /\ lrArgs = LrNoArgs /\ lrRenamed = {} /\ lrErrors = {}
    /\ lrOutcome = "idle" /\ lrRunEnabled = TRUE

LrInit ==
    /\ lrNames \in [LrLayers -> LrNameSet]
    /\ lrOld = lrNames
    /\ lrArgs = LrNoArgs
    /\ lrRenamed = {}
    /\ lrErrors = {}
    /\ lrOutcome = "idle"
    /\ lrRunEnabled = TRUE

LrReturn(outcome) ==
    /\ lrOutcome' = outcome
    /\ UNCHANGED <<lrNames, lrOld, lrArgs, lrRenamed, lrErrors, lrRunEnabled>>

\* rename_layers returns on "Seleziona almeno un layer".
RenameNoSelection ==
    /\ tool = "renamer" /\ lrOutcome = "idle" /\ lrRunEnabled
    /\ LrReturn("warn_no_selection")
    /\ UNCHANGED <<tool, ocVars, miVars, bcVars, feVars, ldVars>>

\* rename_layers returns on a number field int() rejects.
RenameNotANumber ==
    /\ tool = "renamer" /\ lrOutcome = "idle" /\ lrRunEnabled
    /\ \E sel \in (SUBSET LrLayers) \ {{}}, l \in LrNumberTexts, r \in LrNumberTexts :
          /\ (l = -1 \/ r = -1)
          /\ LrReturn("warn_not_a_number")
    /\ UNCHANGED <<tool, ocVars, miVars, bcVars, feVars, ldVars>>

\* rename_layers returns on "Inserisci almeno un parametro di rinomina".
RenameNoParameter ==
    /\ tool = "renamer" /\ lrOutcome = "idle" /\ lrRunEnabled
    /\ \E sel \in (SUBSET LrLayers) \ {{}}, rep \in LrReplacements :
          LrReturn("warn_no_parameter")
    /\ UNCHANGED <<tool, ocVars, miVars, bcVars, feVars, ldVars>>

\* The user answers No to one of the two questions.
RenameDeclined ==
    /\ tool = "renamer" /\ lrOutcome = "idle" /\ lrRunEnabled
    /\ \E sel \in (SUBSET LrLayers) \ {{}}, p \in LrPrefixes, s \in LrSuffixes,
          se \in LrSearches, l \in LrRemoveCounts, r \in LrRemoveCounts :
          /\ (p # <<>> \/ s # <<>> \/ se # <<>> \/ l > 0 \/ r > 0)
          /\ LrReturn("declined")
    /\ UNCHANGED <<tool, ocVars, miVars, bcVars, feVars, ldVars>>

\* rename_layers with valid fields and the user's Yes, up to the first
\* processEvents: toggle_controls(False) and the progress popup.
RenameStart ==
    /\ tool = "renamer" /\ lrOutcome = "idle" /\ lrRunEnabled
    /\ \E sel \in (SUBSET LrLayers) \ {{}}, p \in LrPrefixes, s \in LrSuffixes,
          se \in LrSearches, rep \in LrReplacements,
          l \in LrRemoveCounts, r \in LrRemoveCounts :
          /\ (p # <<>> \/ s # <<>> \/ se # <<>> \/ l > 0 \/ r > 0)
          \* toggle_replace_field empties the replacement with the search text
          /\ (se = <<>> => rep = <<>>)
          /\ lrArgs' = [prefix |-> p, suffix |-> s, search |-> se, replace |-> rep,
                        left |-> l, right |-> r, selected |-> sel]
    /\ lrOutcome' = "renaming"
    /\ lrRunEnabled' = FALSE
    /\ UNCHANGED <<lrNames, lrOld, lrRenamed, lrErrors>>
    /\ UNCHANGED <<tool, ocVars, miVars, bcVars, feVars, ldVars>>

\* The loop of rename_layers over the selected layers and toggle_controls(True)
\* after it.
RenameLayers ==
    /\ tool = "renamer" /\ lrOutcome = "renaming"
    /\ LET a == lrArgs
           sel == lrArgs.selected
           empty == {n \in sel : NewName(lrNames[n], a) = <<>>}
       IN /\ lrOld' = lrNames
          /\ lrErrors' = empty
          /\ lrRenamed' = sel \ empty
          /\ lrNames' = [n \in LrLayers |->
                           IF n \in sel \ empty THEN NewName(lrNames[n], a)
                           ELSE lrNames[n]]
    /\ lrOutcome' = "done"
    /\ lrRunEnabled' = TRUE
    /\ UNCHANGED lrArgs
    /\ UNCHANGED <<tool, ocVars, miVars, bcVars, feVars, ldVars>>

\* The user closes a warning or declines: the dialog is as it was before.
RenameAcknowledge ==
    /\ tool = "renamer" /\ lrOutcome \notin {"idle", "renaming", "done"}
    /\ lrOutcome' = "idle"
    /\ UNCHANGED <<lrNames, lrOld, lrArgs, lrRenamed, lrErrors, lrRunEnabled>>
    /\ UNCHANGED <<tool, ocVars, miVars, bcVars, feVars, ldVars>>

(***************************************************************************)
(*                         OVERLAPS COUNTER                                *)
(***************************************************************************)
\* The child algorithms of processAlgorithm, in the order of the code.
OcChildren ==
    <<"BufferCavi", "IdProgressivoCavi", "RiparaGeometrieInfrastruttura",
      "IdProgressivoInfrastruttura", "AssociaId_cavSullinfrastruttura",
      "AggregaPerIdDellinfrastruttura", "CampoNumeroCaviSovrapposti">>

\* The INPUT of each child: a parameter of the model or an earlier output.
OcInputOf(k, params) ==
    CASE k = 1 -> params.cavi_4326
      [] k = 3 -> params.infrastruttura_4326
      [] OTHER -> OcChildren[k - 1]

\* The layers the two parameters of the model may name.
OcLayers == {"layer1", "layer2"}

OcNames(ran) == [i \in DOMAIN ran |-> ran[i].name]

OcIdle ==
    /\ ocPc = "idle" /\ ocCanceled = FALSE /\ ocCanceledAt = <<"never", 0>>
    /\ ocRan = <<>> /\ ocStep = 0 /\ ocResult = "none"
    /\ ocParams = [cavi_4326 |-> "none", infrastruttura_4326 |-> "none"]

\* processAlgorithm is entered: feedback, results and outputs are created.
OcStart ==
    /\ tool = "overlaps" /\ ocPc = "idle"
    /\ ocPc' = "run"
    /\ \E c \in OcLayers, i \in OcLayers :
          ocParams' = [cavi_4326 |-> c, infrastruttura_4326 |-> i]
    /\ UNCHANGED <<ocCanceled, ocCanceledAt, ocRan, ocStep, ocResult>>
    /\ UNCHANGED <<tool, lrVars, miVars, bcVars, feVars, ldVars>>

\* The user cancels the feedback, at any moment of the run.
OcCancel ==
    /\ tool = "overlaps" /\ ocPc \in {"run", "check"} /\ ~ocCanceled
    /\ ocCanceled' = TRUE
    /\ ocCanceledAt' = <<ocPc, Len(ocRan)>>
    /\ UNCHANGED <<ocPc, ocRan, ocStep, ocResult, ocParams>>
    /\ UNCHANGED <<tool, lrVars, miVars, bcVars, feVars, ldVars>>

\* processing.run of the next child; after the seventh the result is returned.
OcRunChild ==
    /\ tool = "overlaps" /\ ocPc = "run"
    /\ ocRan' = Append(ocRan, [name |-> OcChildren[Len(ocRan) + 1],
                              input |-> OcInputOf(Len(ocRan) + 1, ocParams)])
    /\ IF Len(ocRan) + 1 = Len(OcChildren)
       THEN /\ ocResult' = "InfrastrutturaConNcavi"
            /\ ocPc' = "returned"
       ELSE /\ ocResult' = ocResult
            /\ ocPc' = "check"
    /\ UNCHANGED <<ocCanceled, ocCanceledAt, ocStep, ocParams>>
    /\ UNCHANGED <<tool, lrVars, miVars, bcVars, feVars, ldVars>>

\* processing.run of the next child raises: the exception leaves the method.
OcChildRaises ==
    /\ tool = "overlaps" /\ ocPc = "run"
    /\ ocPc' = "raised"
    /\ UNCHANGED <<ocCanceled, ocCanceledAt, ocRan, ocStep, ocResult, ocParams>>
    /\ UNCHANGED <<tool, lrVars, miVars, bcVars, feVars, ldVars>>

\* `if feedback.isCanceled()` of the check after child k
OcSeesCancelMutant(k) == ocCanceled /\ k # 3

OcSeesCancel(k) == ocCanceled

\* feedback.setCurrentStep(k); if feedback.isCanceled(): return {}
OcCheck ==
    /\ tool = "overlaps" /\ ocPc = "check"
    /\ ocStep' = Len(ocRan)
    /\ IF OcSeesCancel(Len(ocRan))
       THEN /\ ocResult' = "empty"
            /\ ocPc' = "returned"
       ELSE /\ ocResult' = ocResult
            /\ ocPc' = "run"
    /\ UNCHANGED <<ocCanceled, ocCanceledAt, ocRan, ocParams>>
    /\ UNCHANGED <<tool, lrVars, miVars, bcVars, feVars, ldVars>>

(***************************************************************************)
(*              BATCH CONVERTER: convert_to_mapinfo                        *)
(* The file system holds the temporary GeoJSON (miTemp) and the output     *)
(* file (miOut).  Every host call (os, ogr2ogr, the vector layer, the file *)
(* writer, the processing algorithm) has the outcomes the host can give.   *)
(***************************************************************************)
MiIdle ==
    /\ miPc = "idle" /\ miTemp = FALSE /\ miOut = FALSE /\ miReproject = FALSE
    /\ miAttempted = <<>> /\ miSucceeded = {} /\ miCommands = <<>>
    /\ miResult = "none"

\* Before the call: a temporary file of an earlier run may be left, the output
\* may exist, the reprojection checkbox is checked or not.
MiInit ==
    /\ miPc = "idle" /\ miTemp \in BOOLEAN /\ miOut \in BOOLEAN
    /\ miReproject \in BOOLEAN
    /\ miAttempted = <<>> /\ miSucceeded = {} /\ miCommands = <<>>
    /\ miResult = "none"

\* `return x` of convert_to_mapinfo
MiReturn(x) == miPc' = "returned" /\ miResult' = x

\* The command line of ogr2ogr, with -t_srs when a reprojection is asked for.
MiOgrCommand(source) ==
    <<"ogr2ogr", source>> \o (IF miReproject THEN <<"-t_srs">> ELSE <<>>)

\* The paths are normalised, os.makedirs runs outside the try statement, and a
\* temporary file of an earlier run is removed (a failure to remove is ignored).
MiEnter ==
    /\ tool = "mapinfo" /\ miPc = "idle"
    /\ \E makedirsRaises \in BOOLEAN, removeRaises \in BOOLEAN :
          IF makedirsRaises
          THEN /\ miPc' = "returned" /\ miResult' = "raised"
               /\ UNCHANGED miTemp
          ELSE /\ miPc' = "strategy1"
               /\ miTemp' = (miTemp /\ removeRaises)
               /\ UNCHANGED miResult
    /\ UNCHANGED <<miOut, miReproject, miAttempted, miSucceeded, miCommands>>
    /\ UNCHANGED <<tool, lrVars, ocVars, bcVars, feVars, ldVars>>

\* _convert_to_mapinfo_with_ogr: True when ogr2ogr ends with code 0 and the
\* output exists; False when it fails or anything raises.
MiStrategy1 ==
    /\ tool = "mapinfo" /\ miPc = "strategy1"
    /\ miAttempted' = Append(miAttempted, 1)
    /\ \E how \in {"popen_raises", "nonzero", "zero"}, created \in BOOLEAN :
          /\ miCommands' = IF how = "popen_raises" THEN miCommands
                           ELSE Append(miCommands, MiOgrCommand("input"))
          /\ miOut' = (miOut \/ (how = "zero" /\ created))
          /\ IF how = "zero" /\ miOut'
             THEN /\ miSucceeded' = miSucceeded \cup {1}
                  /\ MiReturn("True")
             ELSE /\ miPc' = "strategy2"
                  /\ UNCHANGED <<miSucceeded, miResult>>
    /\ UNCHANGED <<miTemp, miReproject>>
    /\ UNCHANGED <<tool, lrVars, ocVars, bcVars, feVars, ldVars>>

\* The first half of the second strategy: the layer is loaded and sanitised and
\* written as a temporary GeoJSON.  An exception is caught by the outer handler,
\* which removes the temporary file when it can and returns False.
MiStrategy2Prepare ==
    /\ tool = "mapinfo" /\ miPc = "strategy2"
    /\ miAttempted' = Append(miAttempted, 2)
    /\ \E how \in {"layer_invalid", "sanitize_raises", "memory_invalid", "write_error",
                   "temp_missing", "written"}, removeRaises \in BOOLEAN :
          CASE how = "written" ->
                 /\ miTemp' = TRUE
                 /\ miPc' = "strategy2_convert"
                 /\ UNCHANGED miResult
            [] how = "sanitize_raises" ->
                 /\ miTemp' = (miTemp /\ removeRaises)
                 /\ MiReturn("False")
            [] how = "temp_missing" ->
                 /\ ~miTemp
                 /\ UNCHANGED miTemp
                 /\ MiReturn("False")
            [] OTHER ->
                 /\ UNCHANGED miTemp
                 /\ MiReturn("False")
    /\ UNCHANGED <<miOut, miReproject, miSucceeded, miCommands>>
    /\ UNCHANGED <<tool, lrVars, ocVars, bcVars, feVars, ldVars>>

\* os.remove(temp_geojson) of the second strategy is inside the inner try
\* statement: the handler logs and the code goes on to the third strategy.
MiAfterRemoveRaises == "strategy3"

\* The second half of the second strategy: the temporary GeoJSON is converted
\* by the processing algorithm.
MiStrategy2Convert ==
    /\ tool = "mapinfo" /\ miPc = "strategy2_convert"
    /\ \E how \in {"temp_invalid", "run_raises", "ran"}, created \in BOOLEAN,
          removeRaises \in BOOLEAN :
          /\ miCommands' = IF how = "temp_invalid" THEN miCommands
                           ELSE Append(miCommands,
                                  <<IF miReproject THEN "native:reprojectlayer"
                                    ELSE "native:savefeatures", "temp">>)
          /\ miOut' = (miOut \/ (how # "temp_invalid" /\ created))
          /\ CASE how = "temp_invalid" ->
                    /\ MiReturn("False")
                    /\ UNCHANGED <<miTemp, miSucceeded>>
               [] how = "run_raises" ->
                    /\ miPc' = "strategy3"
                    /\ UNCHANGED <<miTemp, miSucceeded, miResult>>
               [] how = "ran" /\ ~miOut' ->
                    /\ miPc' = "strategy3"
                    /\ UNCHANGED <<miTemp, miSucceeded, miResult>>
               [] how = "ran" /\ miOut' ->
                    /\ miSucceeded' = miSucceeded \cup {2}
                    /\ IF removeRaises /\ MiAfterRemoveRaises = "strategy3"
                       THEN /\ miPc' = "strategy3"
                            /\ UNCHANGED <<miTemp, miResult>>
                       ELSE /\ miTemp' = removeRaises
                            /\ MiReturn("True")
    /\ UNCHANGED <<miReproject, miAttempted>>
    /\ UNCHANGED <<tool, lrVars, ocVars, bcVars, feVars, ldVars>>

\* The third strategy, _convert_temp_geojson_to_mapinfo_with_ogr, when the
\* temporary file exists; the file is removed whatever the result.
MiStrategy3 ==
    /\ tool = "mapinfo" /\ miPc = "strategy3"
    /\ IF miTemp
       THEN /\ miAttempted' = Append(miAttempted, 3)
            /\ \E how \in {"popen_raises", "nonzero", "zero"}, created \in BOOLEAN,
                  removeRaises \in BOOLEAN :
                  /\ miCommands' = IF how = "popen_raises" THEN miCommands
                                   ELSE Append(miCommands, MiOgrCommand("temp"))
                  /\ miOut' = (miOut \/ (how = "zero" /\ created))
                  /\ miTemp' = removeRaises
                  /\ IF how = "zero" /\ miOut'
                     THEN /\ miSucceeded' = miSucceeded \cup {3}
                          /\ MiReturn("True")
                     ELSE /\ UNCHANGED miSucceeded
                          /\ MiReturn("False")
       ELSE /\ MiReturn("False")
            /\ UNCHANGED <<miTemp, miOut, miAttempted, miSucceeded, miCommands>>
    /\ UNCHANGED miReproject
    /\ UNCHANGED <<tool, lrVars, ocVars, bcVars, feVars, ldVars>>

(***************************************************************************)
(*              BATCH CONVERTER: start_conversion                          *)
(* bcTable is the table of the dialog, one record per row: the file of     *)
(* column "Nome file" and the text of column "Stato".  The table is built  *)
(* with setSortingEnabled(True), so the user chooses the sort column by a  *)
(* click on a header (bcSort), and QTableWidget.setItem on the sort column *)
(* moves the row to its sorted position.  The file system holds the single *)
(* GeoPackage (bcGpkgExists).                                              *)
(***************************************************************************)
BcFormats == {"CSV", "DXF", "ESRI Shapefile", "GeoPackage"}

\* The format the combobox shows after populate_formats: the first of the
\* sorted names.
BcFirstFormat == "CSV"

\* The table sorted by another column, or by "Stato" in one of the two orders.
BcSorts == {"other", "asc", "desc"}

BcRowSet == 1..bcRows

\* The order of the texts of column "Stato" (QTableWidgetItem.__lt__).
BcStatusRank(status) ==
    CASE status = "Completato" -> 1
      [] status = "Errore" -> 2
      [] status = "In attesa" -> 3
      [] status = "In elaborazione" -> 4

\* Item a sorts strictly before item b under the sort order.
BcBefore(a, b, sort) ==
    IF sort = "asc"
    THEN BcStatusRank(a.status) < BcStatusRank(b.status)
    ELSE BcStatusRank(a.status) > BcStatusRank(b.status)

BcRemoveAt(table, r) == SubSeq(table, 1, r - 1) \o SubSeq(table, r + 1, Len(table))

BcInsertAt(table, p, item) ==
    SubSeq(table, 1, p) \o <<item>> \o SubSeq(table, p + 1, Len(table))

\* bctable.setItem(row, 4, status_item), the last statement of
\* update_file_status: the tables it can leave.  With the table sorted by
\* "Stato" the row moves to a sorted position (any of them among equal texts).
BcSetStatus(table, r, status, sort) ==
    LET item == [table[r] EXCEPT !.status = status]
        rest == BcRemoveAt(table, r)
    IN IF sort = "other"
       THEN {[table EXCEPT ![r] = item]}
       ELSE {BcInsertAt(rest, p, item) :
                p \in {q \in 0..Len(rest) :
                          /\ \A i \in 1..q : ~BcBefore(item, rest[i], sort)
                          /\ \A i \in (q + 1)..Len(rest) : ~BcBefore(rest[i], item, sort)}}

\* for row in range(rowCount): update_file_status(row, "In attesa")
RECURSIVE BcResetFrom(_, _, _)
BcResetFrom(table, r, sort) ==
    IF r > Len(table) THEN {table}
    ELSE UNION {BcResetFrom(t, r + 1, sort) : t \in BcSetStatus(table, r, "In attesa", sort)}

BcIdle ==
    /\ bcPc = "idle" /\ bcRows = 0 /\ bcTable = <<>> /\ bcProcessed = <<>>
    /\ bcRow = 0 /\ bcFile = 0 /\ bcSuccess = 0 /\ bcError = 0
    /\ bcFormat = "GeoPackage" /\ bcSort = "other"
    /\ bcSingle = TRUE /\ bcGpkgExists = FALSE /\ bcLoopEntered = FALSE
    /\ bcOutcome = "none" /\ bcRunEnabled = TRUE
    /\ bcCrsChecked = TRUE /\ bcForced = FALSE /\ bcCount = 0

\* update_ui_for_format for the format shown: the transform checkbox, the
\* flag _crs_forced_by_csv and the single-GeoPackage checkbox it leaves.
UpdateUiForFormatMutant(format, checked, forced) ==
    [checked |-> IF format = "CSV" THEN FALSE ELSE (forced \/ checked),
     forced |-> (format = "CSV" \/ forced),
     single |-> (format = "GeoPackage")]

UpdateUiForFormat(format, checked, forced) ==
    IF format = "CSV"
    THEN [checked |-> FALSE, forced |-> TRUE, single |-> FALSE]
    ELSE [checked |-> IF forced THEN TRUE ELSE checked, forced |-> FALSE,
          single |-> (format = "GeoPackage")]

\* The dialog after __init__ (init_crs_widget_state checks the transform box,
\* the flag starts False, populate_formats shows the first format and calls
\* update_ui_for_format), after add_source_files (every row waits, the label
\* counts the rows) and after the user's choice of a sort column.
BcInit ==
    /\ bcPc = "idle"
    /\ bcRows \in 0..MaxRows
    /\ bcTable = [r \in 1..bcRows |-> [file |-> r, status |-> "In attesa"]]
    /\ bcCount = bcRows
    /\ bcProcessed = [f \in 1..bcRows |-> 0]
    /\ bcRow = 0 /\ bcFile = 0 /\ bcSuccess = 0 /\ bcError = 0
    /\ bcFormat = BcFirstFormat
    /\ LET u == UpdateUiForFormat(BcFirstFormat, TRUE, FALSE)
       IN bcCrsChecked = u.checked /\ bcForced = u.forced /\ bcSingle = u.single
    /\ bcSort \in BcSorts
    /\ bcGpkgExists \in BOOLEAN
    /\ bcLoopEntered = FALSE
    /\ bcOutcome = "none" /\ bcRunEnabled = TRUE

\* bcoutputformat.currentIndexChanged -> update_ui_for_format
BcSetFormat ==
    /\ tool = "converter" /\ bcPc = "idle" /\ bcRunEnabled
    /\ \E f \in BcFormats \ {bcFormat} :
          LET u == UpdateUiForFormat(f, bcCrsChecked, bcForced)
          IN /\ bcFormat' = f
             /\ bcCrsChecked' = u.checked
             /\ bcForced' = u.forced
             /\ bcSingle' = u.single
    /\ UNCHANGED <<bcPc, bcRows, bcTable, bcProcessed, bcRow, bcFile, bcSuccess,
                   bcError, bcSort, bcGpkgExists, bcLoopEntered, bcOutcome,
                   bcRunEnabled, bcCount>>
    /\ UNCHANGED <<tool, lrVars, ocVars, miVars, feVars, ldVars>>

\* The user clicks the transform checkbox, which is enabled unless the format
\* is CSV, or the single-GeoPackage checkbox, enabled with GeoPackage.
BcToggleCheckbox ==
    /\ tool = "converter" /\ bcPc = "idle" /\ bcRunEnabled
    /\ \/ /\ bcFormat # "CSV"
          /\ bcCrsChecked' = ~bcCrsChecked
          /\ UNCHANGED bcSingle
       \/ /\ bcFormat = "GeoPackage"
          /\ bcSingle' = ~bcSingle
          /\ UNCHANGED bcCrsChecked
    /\ UNCHANGED <<bcPc, bcRows, bcTable, bcProcessed, bcRow, bcFile, bcSuccess,
                   bcError, bcFormat, bcSort, bcGpkgExists, bcLoopEntered, bcOutcome,
                   bcRunEnabled, bcForced, bcCount>>
    /\ UNCHANGED <<tool, lrVars, ocVars, miVars, feVars, ldVars>>

\* add_source_files: the warning about the source directory returns first;
\* then clear_files empties the table and update_file_count rewrites the
\* label; then come the warning about the file types, the information that
\* no file was found, or add_files_to_table with the files found.  What the
\* call does not read before it returns is not varied.
BcAddSourceFiles ==
    /\ tool = "converter" /\ bcPc = "idle" /\ bcRunEnabled
    /\ \E dirValid \in BOOLEAN, typeChecked \in BOOLEAN, found \in 0..MaxRows :
          /\ (~dirValid => typeChecked)
          /\ (~(dirValid /\ typeChecked) => found = 0)
          /\ IF ~dirValid
             THEN /\ bcOutcome' = "warning"
                  /\ UNCHANGED <<bcRows, bcTable, bcCount, bcProcessed, bcRow, bcFile,
                                 bcSuccess, bcError>>
             ELSE LET n == IF typeChecked THEN found ELSE 0
                  IN /\ bcOutcome' = IF ~typeChecked THEN "add_warning_types"
                                     ELSE IF found = 0 THEN "add_none_found"
                                     ELSE "added"
                     /\ bcRows' = n
                     /\ bcTable' = [r \in 1..n |-> [file |-> r, status |-> "In attesa"]]
                     /\ bcCount' = n
                     /\ bcProcessed' = [f \in 1..n |-> 0]
                     /\ bcRow' = 0 /\ bcFile' = 0 /\ bcSuccess' = 0 /\ bcError' = 0
    /\ bcLoopEntered' = FALSE
    /\ UNCHANGED <<bcPc, bcFormat, bcSort, bcSingle, bcGpkgExists, bcRunEnabled,
                   bcCrsChecked, bcForced>>
    /\ UNCHANGED <<tool, lrVars, ocVars, miVars, feVars, ldVars>>

\* use_single_geopackage
BcUseSingle == bcFormat = "GeoPackage" /\ bcSingle

\* start_conversion returns on one of its three warnings (no row, no valid
\* destination directory, no format).
BcStartWarning ==
    /\ tool = "converter" /\ bcPc = "idle" /\ bcRunEnabled
    /\ \E destValid \in BOOLEAN :
          /\ (bcRows = 0 \/ ~destValid)
          /\ bcOutcome' = "warning"
    /\ bcLoopEntered' = FALSE
    /\ UNCHANGED <<bcPc, bcRows, bcTable, bcProcessed, bcRow, bcFile, bcSuccess,
                   bcError, bcFormat, bcSort, bcSingle, bcGpkgExists, bcRunEnabled>>
    /\ UNCHANGED <<bcCrsChecked, bcForced, bcCount>>
    /\ UNCHANGED <<tool, lrVars, ocVars, miVars, feVars, ldVars>>

\* start_conversion passes its checks and asks "Vuoi procedere con la conversione?"
BcStart ==
    /\ tool = "converter" /\ bcPc = "idle" /\ bcRunEnabled
    /\ bcRows > 0
    /\ bcPc' = "ask_confirm"
    /\ bcOutcome' = "none"
    /\ bcLoopEntered' = FALSE
    /\ UNCHANGED <<bcRows, bcTable, bcProcessed, bcRow, bcFile, bcSuccess, bcError,
                   bcFormat, bcSort, bcSingle, bcGpkgExists, bcRunEnabled>>
    /\ UNCHANGED <<bcCrsChecked, bcForced, bcCount>>
    /\ UNCHANGED <<tool, lrVars, ocVars, miVars, feVars, ldVars>>

\* The user answers No: start_conversion returns.
BcDecline ==
    /\ tool = "converter" /\ bcPc = "ask_confirm"
    /\ bcPc' = "idle"
    /\ bcOutcome' = "declined"
    /\ UNCHANGED <<bcRows, bcTable, bcProcessed, bcRow, bcFile, bcSuccess, bcError,
                   bcFormat, bcSort, bcSingle, bcGpkgExists, bcLoopEntered,
                   bcRunEnabled>>
    /\ UNCHANGED <<bcCrsChecked, bcForced, bcCount>>
    /\ UNCHANGED <<tool, lrVars, ocVars, miVars, feVars, ldVars>>

\* The user answers Yes: the controls are disabled, the statuses are reset, the
\* counters start at 0 and the processing module is initialised.  When that
\* raises, the outer handler reports it and the finally clause re-enables the
\* controls.  For a single GeoPackage that exists the user is asked to overwrite.
BcConfirm ==
    /\ tool = "converter" /\ bcPc = "ask_confirm"
    /\ bcTable' \in BcResetFrom(bcTable, 1, bcSort)
    /\ bcProcessed' = [f \in BcRowSet |-> 0]
    /\ bcSuccess' = 0 /\ bcError' = 0 /\ bcRow' = 1 /\ bcFile' = 0
    /\ \E initRaises \in BOOLEAN :
          IF initRaises
          THEN /\ bcPc' = "idle" /\ bcOutcome' = "aborted"
               /\ bcRunEnabled' = TRUE
               /\ UNCHANGED bcLoopEntered
          ELSE IF BcUseSingle /\ bcGpkgExists
               THEN /\ bcPc' = "ask_overwrite" /\ bcRunEnabled' = FALSE
                    /\ UNCHANGED <<bcOutcome, bcLoopEntered>>
               ELSE /\ bcPc' = "loop" /\ bcRunEnabled' = FALSE
                    /\ bcLoopEntered' = TRUE
                    /\ UNCHANGED bcOutcome
    /\ UNCHANGED <<bcRows, bcFormat, bcSort, bcSingle, bcGpkgExists>>
    /\ UNCHANGED <<bcCrsChecked, bcForced, bcCount>>
    /\ UNCHANGED <<tool, lrVars, ocVars, miVars, feVars, ldVars>>

\* The answer to "Sovrascriverlo?": No returns; Yes removes the file, and a
\* failure to remove it returns after a warning.
BcOverwrite ==
    /\ tool = "converter" /\ bcPc = "ask_overwrite"
    /\ \E yes \in BOOLEAN, removeRaises \in BOOLEAN :
          IF yes /\ ~removeRaises
          THEN /\ bcGpkgExists' = FALSE
               /\ bcPc' = "loop" /\ bcLoopEntered' = TRUE
               /\ UNCHANGED <<bcOutcome, bcRunEnabled>>
          ELSE /\ bcPc' = "idle" /\ bcRunEnabled' = TRUE
               /\ bcOutcome' = IF yes THEN "remove_failed" ELSE "overwrite_declined"
               /\ UNCHANGED <<bcGpkgExists, bcLoopEntered>>
    /\ UNCHANGED <<bcRows, bcTable, bcProcessed, bcRow, bcFile, bcSuccess, bcError,
                   bcFormat, bcSort, bcSingle>>
    /\ UNCHANGED <<bcCrsChecked, bcForced, bcCount>>
    /\ UNCHANGED <<tool, lrVars, ocVars, miVars, feVars, ldVars>>

\* The head of the loop body: the progress is shown, the path of the file of
\* the row is read and the status of the row becomes "In elaborazione".
BcBeginRow ==
    /\ tool = "converter" /\ bcPc = "loop" /\ bcRow <= bcRows
    /\ bcFile' = bcTable[bcRow].file
    /\ bcProcessed' = [bcProcessed EXCEPT ![bcTable[bcRow].file] = @ + 1]
    /\ bcTable' \in BcSetStatus(bcTable, bcRow, "In elaborazione", bcSort)
    /\ bcPc' = "converting"
    /\ UNCHANGED <<bcRows, bcRow, bcSuccess, bcError, bcFormat, bcSort, bcSingle,
                   bcGpkgExists, bcLoopEntered, bcOutcome, bcRunEnabled>>
    /\ UNCHANGED <<bcCrsChecked, bcForced, bcCount>>
    /\ UNCHANGED <<tool, lrVars, ocVars, miVars, feVars, ldVars>>

\* What the conversion of one file can meet.  For a single GeoPackage: the
\* layer is invalid, an algorithm raises, the first layer is saved, a later
\* layer is appended by ogr2ogr, or the append fails and the fallback raises.
\* For separate files: convert_single_file saves, or an algorithm raises (for
\* DXF the expected warning about fields counts as a success).  In both cases
\* the clean-up of the name may raise before anything is converted.
BcEvents(single, first) ==
    IF single
    THEN {"name_raises", "layer_invalid", "algorithm_raises"}
         \cup (IF first THEN {"saved"} ELSE {"appended", "append_failed"})
    ELSE {"name_raises", "saved", "algorithm_raises", "dxf_field_warning"}

\* The status the loop body gives the row: "Errore" from one of the except
\* clauses, else by os.path.exists of the output.
BcRowStatus(single, event, format, exists) ==
    CASE event \in {"name_raises", "layer_invalid", "algorithm_raises", "append_failed"}
            -> "Errore"
      [] event = "dxf_field_warning"
            -> IF format = "DXF" THEN "Completato" ELSE "Errore"
      [] OTHER -> IF exists THEN "Completato" ELSE "Errore"

\* The rest of the loop body: the file is converted, update_file_status sets
\* the status of row number bcRow, one of the two counters is updated and the
\* loop goes to the next row.
BcConvertRow ==
    /\ tool = "converter" /\ bcPc = "converting"
    /\ LET first == bcRow = 1 \/ ~bcGpkgExists
       IN \E event \in BcEvents(BcUseSingle, first), created \in BOOLEAN :
             LET exists == IF BcUseSingle
                           THEN bcGpkgExists \/ (event = "saved" /\ created)
                           ELSE event = "saved" /\ created
                 status == BcRowStatus(BcUseSingle, event, bcFormat, exists)
             IN /\ bcGpkgExists' = IF BcUseSingle THEN exists ELSE bcGpkgExists
                /\ bcTable' \in BcSetStatus(bcTable, bcRow, status, bcSort)
                /\ bcSuccess' = bcSuccess + (IF status = "Completato" THEN 1 ELSE 0)
                /\ bcError' = bcError + (IF status = "Errore" THEN 1 ELSE 0)
    /\ bcRow' = bcRow + 1
    /\ bcPc' = "loop"
    /\ UNCHANGED <<bcRows, bcProcessed, bcFile, bcFormat, bcSort, bcSingle,
                   bcLoopEntered, bcOutcome, bcRunEnabled>>
    /\ UNCHANGED <<bcCrsChecked, bcForced, bcCount>>
    /\ UNCHANGED <<tool, lrVars, ocVars, miVars, feVars, ldVars>>

\* After the last row: the progress dialog is closed, the completion message
\* is shown and the finally clause re-enables the controls.
BcFinish ==
    /\ tool = "converter" /\ bcPc = "loop" /\ bcRow > bcRows
    /\ bcPc' = "idle"
    /\ bcOutcome' = "completed"
    /\ bcRunEnabled' = TRUE
    /\ UNCHANGED <<bcRows, bcTable, bcProcessed, bcRow, bcFile, bcSuccess, bcError,
                   bcFormat, bcSort, bcSingle, bcGpkgExists, bcLoopEntered>>
    /\ UNCHANGED <<bcCrsChecked, bcForced, bcCount>>
    /\ UNCHANGED <<tool, lrVars, ocVars, miVars, feVars, ldVars>>

(***************************************************************************)
(*                        FEATURE EXCLUDER                                 *)
(* feSrc and feCmp are the features of the two layers of the project (the  *)
(* value of the join field and the geometry of each feature id); feSame    *)
(* says that the comparison combobox points to the source layer.           *)
(* feVisible is what the source layer returns (its edit buffer included),  *)
(* feProvider what is committed.                                           *)
(***************************************************************************)
\* Attribute values: NULL, an integer or a text.
FeNull == [t |-> "null", n |-> 0, s |-> <<>>]
FeInt(n) == [t |-> "int", n |-> n, s |-> <<>>]
FeText(s) == [t |-> "str", n |-> 0, s |-> s]

FeDigits == <<"0", "1", "2", "3", "4", "5", "6", "7", "8", "9">>

\* str() of a non-negative integer
RECURSIVE IntToStr(_)
IntToStr(n) ==
    IF n < 10 THEN <<FeDigits[n + 1]>>
    ELSE IntToStr(n \div 10) \o <<FeDigits[(n % 10) + 1]>>

\* int() of a text of digits
RECURSIVE ParseInt(_)
ParseInt(s) ==
    IF s = <<>> THEN 0
    ELSE 10 * ParseInt(SubSeq(s, 1, Len(s) - 1))
         + ((CHOOSE d \in 1..10 : FeDigits[d] = s[Len(s)]) - 1)

\* str(value)
Str(v) ==
    CASE v.t = "int" -> IntToStr(v.n)
      [] v.t = "str" -> v.s
      [] OTHER -> <<"N", "U", "L", "L">>

LowerChar(c) ==
    CASE c = "A" -> "a"
      [] c = "N" -> "n"
      [] c = "U" -> "u"
      [] c = "L" -> "l"
      [] c = "B" -> "b"
      [] c = "S" -> "s"
      [] c = "H" -> "h"
      [] c = "P" -> "p"
      [] OTHER -> c

\* str.lower()
Lower(s) == [i \in DOMAIN s |-> LowerChar(s[i])]

\* The key of a value with the case option ignored.
FeNormaliseMutant(v, caseSensitive) == Str(v)

\* str(value), lower-cased unless the case-sensitive option is checked.
FeNormalise(v, caseSensitive) ==
    IF ~caseSensitive THEN Lower(Str(v)) ELSE Str(v)

\* Geometries on a line: none, or the segment from lo to hi.
FeNoGeom == [present |-> FALSE, lo |-> 0, hi |-> 0]
FeSeg(lo, hi) == [present |-> TRUE, lo |-> lo, hi |-> hi]

\* QgsGeometry.buffer, intersects, contains, equals, distance
Buffer(g, d) == [g EXCEPT !.lo = @ - d, !.hi = @ + d]
Intersects(a, b) == a.lo <= b.hi /\ b.lo <= a.hi
Contains(a, b) == a.lo <= b.lo /\ b.hi <= a.hi
GeomEquals(a, b) == a.lo = b.lo /\ a.hi = b.hi
Distance(a, b) ==
    IF Intersects(a, b) THEN 0
    ELSE IF a.hi < b.lo THEN b.lo - a.hi ELSE a.lo - b.hi

FeFids == {1, 12}
\* The order in which getFeatures returns the features.
FeFidOrder == <<1, 12>>
FeSrcValues == {FeNull, FeInt(1), FeText(<<"a">>)}
FeCmpValues == {FeNull, FeText(<<"1">>), FeText(<<"A">>), FeText(<<"a">>)}
FeSrcGeoms == {FeNoGeom, FeSeg(0, 2), FeSeg(3, 3)}
FeCmpGeoms == {FeNoGeom, FeSeg(0, 2), FeSeg(0, 0)}
FeTolerances == {0, 1}
FeRelations == {"intersects", "contains"}

FeNoRun ==
    [relation |-> "equals", case |-> FALSE, check |-> FALSE, tol |-> 0,
     analysed |-> FALSE, bkp |-> FALSE, edit |-> FALSE]

\* The excluder before any use, when a behaviour is about another tool.
FeIdle ==
    /\ feSrc = [f \in FeFids |-> [value |-> FeNull, geom |-> FeNoGeom]]
    /\ feCmp = feSrc /\ feSame = FALSE
    /\ feVisible = FeFids /\ feProvider = FeFids /\ feEditable = FALSE
    /\ feCheckGeom = FALSE /\ feTol = 0 /\ feSpat = "intersects"
    /\ feSpatEnabled = FALSE /\ feTolEnabled = TRUE /\ feControls = TRUE
    /\ fePc = "idle" /\ feOutcome = "none" /\ feRun = FeNoRun
    /\ feCandidates = {} /\ feDifferent = {} /\ feTable = <<>> /\ feSelected = {}
    /\ feToDelete = {} /\ feLog = <<>>

\* efspat.setEnabled(geometry_enabled and tolerance_non_zero)
FeSpatialEnabled(check, tol) == check /\ tol > 0

\* The layers of the project: the join values vary with the geometries fixed,
\* or the geometries vary with the join values fixed.
FeLayers ==
    \/ \E sv \in [FeFids -> FeSrcValues], cv \in [FeFids -> FeCmpValues] :
          /\ feSrc = [f \in FeFids |-> [value |-> sv[f], geom |-> FeSeg(0, 2)]]
          /\ feCmp = [f \in FeFids |-> [value |-> cv[f], geom |-> FeSeg(0, 0)]]
    \/ \E sg \in [FeFids -> FeSrcGeoms], cg \in [FeFids -> FeCmpGeoms],
          last \in {FeNull, FeText(<<"a">>)} :
          /\ feSrc = [f \in FeFids |-> [value |-> FeText(<<"a">>), geom |-> sg[f]]]
          /\ feCmp = [f \in FeFids |->
                        [value |-> IF f = 1 THEN FeText(<<"a">>) ELSE last,
                         geom |-> cg[f]]]

\* The dialog after __init__: the relation combobox shows "Intersects" and is
\* enabled by toggle_spatial_relation, the tolerance field is enabled.  The
\* source layer may be in an edit session the user opened, with nothing edited.
FeInit ==
    /\ FeLayers
    /\ feSame = FALSE
    /\ feVisible = FeFids /\ feProvider = FeFids /\ feEditable \in BOOLEAN
    /\ feCheckGeom \in BOOLEAN
    /\ feTol \in FeTolerances
    /\ feSpat = "intersects"
    /\ feSpatEnabled = FeSpatialEnabled(feCheckGeom, feTol)
    /\ feTolEnabled = TRUE
    /\ feControls = TRUE
    /\ fePc = "idle" /\ feOutcome = "none" /\ feRun = FeNoRun
    /\ feCandidates = {} /\ feDifferent = {} /\ feTable = <<>> /\ feSelected = {}
    /\ feToDelete = {} /\ feLog = <<>>

\* eftoll.valueChanged -> toggle_spatial_relation
FeSetTolerance ==
    /\ tool = "excluder" /\ fePc = "idle" /\ feTolEnabled
    /\ \E t \in FeTolerances :
          /\ t # feTol
          /\ feTol' = t
          /\ feSpatEnabled' = FeSpatialEnabled(feCheckGeom, t)
    /\ UNCHANGED <<feCheckGeom, feSpat, feTolEnabled, feControls>>
    /\ UNCHANGED <<feLayerVars, feRunVars>>
    /\ UNCHANGED <<tool, lrVars, ocVars, miVars, bcVars, ldVars>>

\* efcheckgeom.stateChanged -> toggle_tolerance_field, toggle_geometry_options
FeToggleCheckGeom ==
    /\ tool = "excluder" /\ fePc = "idle" /\ feControls
    /\ feCheckGeom' = ~feCheckGeom
    /\ feTolEnabled' = ~feCheckGeom
    /\ feSpatEnabled' = FeSpatialEnabled(~feCheckGeom, feTol)
    /\ UNCHANGED <<feTol, feSpat, feControls>>
    /\ UNCHANGED <<feLayerVars, feRunVars>>
    /\ UNCHANGED <<tool, lrVars, ocVars, miVars, bcVars, ldVars>>

\* The user picks an item of the relation combobox, which must be enabled.
FeSelectRelation ==
    /\ tool = "excluder" /\ fePc = "idle" /\ feSpatEnabled
    /\ \E rel \in FeRelations :
          /\ rel # feSpat
          /\ feSpat' = rel
    /\ UNCHANGED <<feCheckGeom, feTol, feSpatEnabled, feTolEnabled, feControls>>
    /\ UNCHANGED <<feLayerVars, feRunVars>>
    /\ UNCHANGED <<tool, lrVars, ocVars, miVars, bcVars, ldVars>>

\* The user picks the comparison layer: the source layer or the other one.
FeSelectMatchLayer ==
    /\ tool = "excluder" /\ fePc = "idle" /\ feControls
    /\ feSame' = ~feSame
    /\ UNCHANGED <<feSrc, feCmp, feVisible, feProvider, feEditable>>
    /\ UNCHANGED <<feWidgetVars, feRunVars>>
    /\ UNCHANGED <<tool, lrVars, ocVars, miVars, bcVars, ldVars>>

\* toggle_controls(enable), for the widgets of the model
FeToggleControls(enable) ==
    /\ feControls' = enable
    /\ feTolEnabled' = (enable /\ feCheckGeom)
    /\ feSpatEnabled' = (enable /\ feCheckGeom /\ feTol > 0)
    /\ UNCHANGED <<feCheckGeom, feTol, feSpat>>

\* A return that leaves toggle_controls(True) out.
FeReturnMutant(outcome) ==
    /\ fePc' = "done"
    /\ feOutcome' = outcome
    /\ UNCHANGED feWidgetVars

\* exclude_features returns with the controls enabled again.
FeReturn(outcome) ==
    /\ fePc' = "done"
    /\ feOutcome' = outcome
    /\ FeToggleControls(TRUE)

\* The comparison layer of the run.
FeMatchLayer == IF feSame THEN [f \in feVisible |-> feSrc[f]] ELSE feCmp

FeOrder(layer) == SelectSeq(FeFidOrder, LAMBDA f : f \in DOMAIN layer)

\* The loop that fills match_features: a later feature replaces an earlier
\* one with the same key.  The dictionary is a set of <<key, feature id>>.
RECURSIVE FeMatchFeatures(_, _, _, _)
FeMatchFeatures(layer, order, caseSensitive, dict) ==
    IF order = <<>> THEN dict
    ELSE LET f == Head(order)
             v == layer[f].value
         IN IF v = FeNull
            THEN FeMatchFeatures(layer, Tail(order), caseSensitive, dict)
            ELSE LET key == FeNormalise(v, caseSensitive)
                 IN FeMatchFeatures(layer, Tail(order), caseSensitive,
                        {p \in dict : p[1] # key} \cup {<<key, f>>})

\* spatial_relation: currentData() of the combobox if it is enabled
FeSpatialRelationMutant(enabled, current) == "equals"

FeSpatialRelation(enabled, current) == IF enabled THEN current ELSE "equals"

\* is_different with the distance used for tolerance 0
FeIsDifferentMutant(sg, mg, tol, relation) ==
    IF tol <= 0 THEN Distance(sg, mg) > tol
    ELSE IF relation = "intersects"
         THEN ~(Intersects(sg, Buffer(mg, tol)) \/ Intersects(mg, Buffer(sg, tol)))
         ELSE IF relation = "contains"
              THEN ~Contains(Buffer(sg, tol), mg)
              ELSE Distance(sg, mg) > tol

\* is_different of the source loop
FeIsDifferent(sg, mg, tol, relation) ==
    IF tol <= 0 THEN ~GeomEquals(sg, mg)
    ELSE IF relation = "intersects"
         THEN ~(Intersects(sg, Buffer(mg, tol)) \/ Intersects(mg, Buffer(sg, tol)))
         ELSE IF relation = "contains"
              THEN ~Contains(Buffer(sg, tol), mg)
              ELSE Distance(sg, mg) > tol

\* features_to_delete of the source loop
FeToDelete(dict, caseSensitive) ==
    {f \in feVisible :
        /\ feSrc[f].value # FeNull
        /\ \E p \in dict : p[1] = FeNormalise(feSrc[f].value, caseSensitive)}

\* features_with_different_geom of the source loop
FeWithDifferentGeom(dict, run) ==
    {f \in FeToDelete(dict, run.case) :
        /\ run.check
        /\ feSrc[f].geom.present
        /\ LET p == CHOOSE q \in dict : q[1] = FeNormalise(feSrc[f].value, run.case)
               mg == FeMatchLayer[p[2]].geom
           IN /\ mg.present
              /\ FeIsDifferent(feSrc[f].geom, mg, run.tol, run.relation)}

\* The text of column "Stato Geometria" and its rank in the ascending sort.
FeGeomStatus(f, different, check) ==
    IF check THEN (IF f \in different THEN "Diversa" ELSE "Uguale") ELSE "N/A"

FeStatusRank(status) ==
    CASE status = "Diversa" -> 1
      [] status = "N/A" -> 2
      [] status = "Uguale" -> 3

RECURSIVE FePerms(_)
FePerms(S) ==
    IF S = {} THEN {<<>>}
    ELSE UNION {{<<x>> \o t : t \in FePerms(S \ {x})} : x \in S}

\* The review table: one row per candidate, the feature id as text in column
\* 0, sorted by column 1 (sortByColumn(1, AscendingOrder)).
FeTables(candidates, different, check) ==
    {[i \in DOMAIN t |->
         [fid |-> IntToStr(t[i]), status |-> FeGeomStatus(t[i], different, check)]] :
       t \in {u \in FePerms(candidates) :
                \A i, j \in DOMAIN u :
                   i < j => FeStatusRank(FeGeomStatus(u[i], different, check))
                            <= FeStatusRank(FeGeomStatus(u[j], different, check))}}

\* The except clause without the rollBack.
FeExceptMutant ==
    /\ FeReturn("error")
    /\ UNCHANGED feLayerVars

\* except Exception: the error dialog, then rollBack when the source layer is
\* in edit mode, which discards the edit buffer and ends the edit session;
\* the finally clause enables the controls and the handler returns.
FeExcept ==
    /\ FeReturn("error")
    /\ feVisible' = IF feEditable THEN feProvider ELSE feVisible
    /\ feEditable' = FALSE
    /\ UNCHANGED <<feSrc, feCmp, feSame, feProvider>>

\* The analysis of exclude_features, from toggle_controls(False) to the review
\* dialog: an exception of the analysis is reported, no candidate gives the
\* message "No matching records found", else the table is shown with every
\* row selected.
FeAnalyse(run) ==
    \E raises \in BOOLEAN :
       LET dict == FeMatchFeatures(FeMatchLayer, FeOrder(FeMatchLayer), run.case, {})
           cands == FeToDelete(dict, run.case)
           diff == FeWithDifferentGeom(dict, run)
       IN /\ (raises => run.check)
          /\ IF raises
             THEN /\ FeExcept
                  /\ feRun' = run
                  /\ UNCHANGED <<feCandidates, feDifferent, feTable, feSelected>>
             ELSE /\ feRun' = [run EXCEPT !.analysed = TRUE]
                  /\ UNCHANGED feLayerVars
                  /\ feCandidates' = cands
                  /\ feDifferent' = diff
                  /\ IF cands = {}
                     THEN /\ FeReturn("no_match")
                          /\ UNCHANGED <<feTable, feSelected>>
                     ELSE /\ fePc' = "review"
                          /\ FeToggleControls(FALSE)
                          /\ feTable' \in FeTables(cands, diff, run.check)
                          /\ feSelected' = 1..Cardinality(cands)
                          /\ UNCHANGED feOutcome
          /\ UNCHANGED <<feToDelete, feLog>>

\* What exclude_features reads from the widgets when it starts, and whether
\* the source layer is in an edit session of the user at that moment.
FeReadRun(caseSensitive) ==
    [relation |-> FeSpatialRelation(feSpatEnabled, feSpat),
     case |-> caseSensitive,
     check |-> feCheckGeom,
     tol |-> IF feCheckGeom THEN feTol ELSE 0,
     analysed |-> FALSE,
     bkp |-> FALSE,
     edit |-> feEditable]

\* exclude_features returns on "Select both layers" or "Select join fields".
FeRunWarning ==
    /\ tool = "excluder" /\ fePc = "idle" /\ feControls
    /\ fePc' = "done"
    /\ feOutcome' = "warning"
    /\ UNCHANGED <<feRun, feCandidates, feDifferent, feTable, feSelected, feToDelete,
                   feLog>>
    /\ UNCHANGED <<feLayerVars, feWidgetVars>>
    /\ UNCHANGED <<tool, lrVars, ocVars, miVars, bcVars, ldVars>>

\* The click on efrun: with the same layer on both sides the user is asked
\* whether to proceed, else the analysis runs.
FeRunClicked ==
    /\ tool = "excluder" /\ fePc = "idle" /\ feControls
    /\ \E caseSensitive \in BOOLEAN :
          IF feSame
          THEN /\ fePc' = "ask_same"
               /\ feRun' = FeReadRun(caseSensitive)
               /\ UNCHANGED <<feOutcome, feCandidates, feDifferent, feTable,
                              feSelected, feToDelete, feLog>>
               /\ UNCHANGED <<feLayerVars, feWidgetVars>>
          ELSE FeAnalyse(FeReadRun(caseSensitive))
    /\ UNCHANGED <<tool, lrVars, ocVars, miVars, bcVars, ldVars>>

\* The answer to "Do you want to proceed?"
FeAnswerSame ==
    /\ tool = "excluder" /\ fePc = "ask_same"
    /\ \E yes \in BOOLEAN :
          IF yes
          THEN FeAnalyse(feRun)
          ELSE /\ fePc' = "done"
               /\ feOutcome' = "declined"
               /\ UNCHANGED <<feRun, feCandidates, feDifferent, feTable, feSelected,
                              feToDelete, feLog>>
               /\ UNCHANGED <<feLayerVars, feWidgetVars>>
    /\ UNCHANGED <<tool, lrVars, ocVars, miVars, bcVars, ldVars>>

FeReviewUnchanged ==
    /\ UNCHANGED <<fePc, feOutcome, feRun, feCandidates, feDifferent, feTable,
                   feToDelete, feLog>>
    /\ UNCHANGED <<feLayerVars, feWidgetVars>>
    /\ UNCHANGED <<tool, lrVars, ocVars, miVars, bcVars, ldVars>>

\* "Seleziona Tutti" and "Deseleziona Tutti"
FeSelectAll ==
    /\ tool = "excluder" /\ fePc = "review"
    /\ \E all \in BOOLEAN :
          feSelected' = IF all THEN DOMAIN feTable ELSE {}
    /\ feSelected' # feSelected
    /\ FeReviewUnchanged

\* select_by_geometry, behind the two buttons shown with the geometry check
FeSelectByGeometry ==
    /\ tool = "excluder" /\ fePc = "review" /\ feRun.check
    /\ \E selectDifferent \in BOOLEAN :
          feSelected' = {i \in DOMAIN feTable :
                           LET isDifferent == ParseInt(feTable[i].fid) \in feDifferent
                           IN \/ (selectDifferent /\ isDifferent)
                              \/ (~selectDifferent /\ ~isDifferent)}
    /\ feSelected' # feSelected
    /\ FeReviewUnchanged

\* A click on a row of the table (MultiSelection): its selection is toggled.
FeClickRow ==
    /\ tool = "excluder" /\ fePc = "review"
    /\ \E i \in DOMAIN feTable :
          feSelected' = IF i \in feSelected THEN feSelected \ {i}
                        ELSE feSelected \cup {i}
    /\ FeReviewUnchanged

\* "Chiudi": the dialog is rejected and exclude_features returns.
FeClose ==
    /\ tool = "excluder" /\ fePc = "review"
    /\ FeReturn("cancelled")
    /\ UNCHANGED <<feRun, feCandidates, feDifferent, feTable, feSelected, feToDelete,
                   feLog>>
    /\ UNCHANGED feLayerVars
    /\ UNCHANGED <<tool, lrVars, ocVars, miVars, bcVars, ldVars>>

\* startEditing, deleteFeatures, commitChanges and the message "Operation
\* completed".  startEditing fails for a layer that cannot be edited, and then
\* deleteFeatures and commitChanges return False; commitChanges can fail and
\* leave the layer in edit mode.  No return value is looked at.
FeDeleteFeatures(fids, log) ==
    \E canEdit \in BOOLEAN, commitOk \in BOOLEAN :
       LET editing == feEditable \/ canEdit
       IN /\ feLog' = IF editing THEN Append(log, "delete")
                    ELSE Append(Append(log, "edit_refused"), "delete")
          /\ feVisible' = IF editing THEN feVisible \ fids ELSE feVisible
          /\ feProvider' = IF editing /\ commitOk THEN feVisible \ fids ELSE feProvider
          /\ feEditable' = (editing /\ ~commitOk)
          /\ feToDelete' = fids
          /\ FeReturn("completed")
          /\ UNCHANGED <<feSrc, feCmp, feSame>>

\* The deletion goes on after a failed backup unless the user answers No.
FeProceedsMutant(reply) == TRUE

FeProceeds(reply) == reply # "No"

\* "Elimina Feature": the dialog is accepted; the feature ids are read from
\* column 0 of the selected rows; with the backup option checked the backup is
\* made first, and its failure leads to the question "Proceed with deletion?".
FeDelete ==
    /\ tool = "excluder" /\ fePc = "review"
    /\ LET fids == {ParseInt(feTable[i].fid) : i \in feSelected}
       IN IF fids = {}
          THEN /\ FeReturn("none_selected")
               /\ UNCHANGED <<feRun, feToDelete, feLog, feLayerVars>>
          ELSE \E bkp \in BOOLEAN, backupOk \in BOOLEAN :
                  /\ feRun' = [feRun EXCEPT !.bkp = bkp]
                  /\ (~bkp => backupOk)
                  /\ IF bkp /\ ~backupOk
                     THEN /\ fePc' = "ask_backup"
                          /\ feLog' = Append(feLog, "backup_failed")
                          /\ feToDelete' = fids
                          /\ UNCHANGED <<feOutcome, feLayerVars, feWidgetVars>>
                     ELSE FeDeleteFeatures(fids,
                             IF bkp THEN Append(feLog, "backup_ok") ELSE feLog)
    /\ UNCHANGED <<feCandidates, feDifferent, feTable, feSelected>>
    /\ UNCHANGED <<tool, lrVars, ocVars, miVars, bcVars, ldVars>>

\* The answer to "Failed to create layer backup. Proceed with deletion?"
FeAnswerBackup ==
    /\ tool = "excluder" /\ fePc = "ask_backup"
    /\ \E reply \in {"Yes", "No"} :
          IF FeProceeds(reply)
          THEN FeDeleteFeatures(feToDelete,
                  Append(feLog, IF reply = "Yes" THEN "answer_yes" ELSE "answer_no"))
          ELSE /\ FeReturn("backup_declined")
               /\ feLog' = Append(feLog, "answer_no")
               /\ UNCHANGED <<feToDelete, feLayerVars>>
    /\ UNCHANGED <<feRun, feCandidates, feDifferent, feTable, feSelected>>
    /\ UNCHANGED <<tool, lrVars, ocVars, miVars, bcVars, ldVars>>

(***************************************************************************)
(*                           LAYER LOADER                                  *)
(* File names, extensions and group names are sequences of characters.     *)
(* The project layer tree is a set of groups, each the path of its names   *)
(* from the root, and a set of layer nodes, each with the path of its      *)
(* group (<<>> is the root), the name of its file and the archive it came  *)
(* from (<<>> for a file of the directory).                                *)
(***************************************************************************)
LdShp == <<".", "s", "h", "p">>
LdGml == <<".", "g", "m", "l">>
LdGpkg == <<".", "g", "p", "k", "g">>
LdTif == <<".", "t", "i", "f">>
LdXlsx == <<".", "x", "l", "s", "x">>
LdDbf == <<".", "d", "b", "f">>
LdExtensions == {LdShp, LdGml, LdGpkg, LdTif, LdXlsx, LdDbf}
LdZip == <<".", "z", "i", "p">>
LdTar == <<".", "t", "a", "r">>
LdArchiveExtensions ==
    {LdZip, LdTar, <<".", "r", "a", "r">>, <<".", "7", "z">>, <<".", "g", "z">>}

\* str.endswith
EndsWith(s, suffix) ==
    /\ Len(s) >= Len(suffix)
    /\ SubSeq(s, Len(s) - Len(suffix) + 1, Len(s)) = suffix

\* `t in s` of two texts
IsSubstring(t, s) ==
    \E i \in 0..(Len(s) - Len(t)) : SubSeq(s, i + 1, i + Len(t)) = t

\* str.strip
RECURSIVE Strip(_)
Strip(s) ==
    IF s = <<>> THEN s
    ELSE IF Head(s) = " " THEN Strip(Tail(s))
    ELSE IF s[Len(s)] = " " THEN Strip(SubSeq(s, 1, Len(s) - 1))
    ELSE s

\* os.path.splitext(name)[1]: from the last dot on, unless only dots come
\* before it.
SplitExt(name) ==
    LET dots == {i \in DOMAIN name : name[i] = "."}
        last == CHOOSE i \in dots : \A j \in dots : j <= i
    IN IF dots = {} THEN <<>>
       ELSE IF \A j \in 1..(last - 1) : name[j] = "." THEN <<>>
       ELSE SubSeq(name, last, Len(name))

\* The archive test of process_files and load_layers.
IsArchive(name) == \E ext \in LdArchiveExtensions : EndsWith(Lower(name), ext)

\* The extension test with the checkboxes ignored.
CheckExtensionMutant(name, w) == Lower(SplitExt(name)) \in LdExtensions

\* check_extension; w.exts is the set of the extensions whose box is checked.
CheckExtension(name, w) ==
    LET ext == Lower(SplitExt(name))
    IN ext \in LdExtensions /\ ext \in w.exts

CheckNameFilter(name, w) ==
    IF ~w.llchecktext THEN TRUE
    ELSE LET filter_text == Lower(Strip(w.lltext))
         IN IF filter_text = <<>> THEN TRUE
            ELSE IsSubstring(filter_text, Lower(name))

CheckDateFilter(mtime, w) ==
    IF ~w.llcheckdate THEN TRUE ELSE mtime >= w.lldate

\* geometryType() of a vector layer: 0 point, 1 line, 2 polygon, 3 unknown,
\* 4 no geometry.
CheckGeometryFilter(vector, geomType, w) ==
    IF ~w.llcheckgeom THEN TRUE
    ELSE IF ~vector THEN TRUE
    ELSE IF w.llgeom = "any" THEN TRUE
    ELSE IF w.llgeom = "Point" THEN geomType \in {0, 4}
    ELSE IF w.llgeom = "Line" THEN geomType \in {1, 5}
    ELSE IF w.llgeom = "Polygon" THEN geomType \in {2, 6}
    ELSE FALSE

\* A group is empty: len(child.children()) == 0.
LdIsEmpty(g, groups, layers) ==
    /\ ~\E l \in layers : l.group = g
    /\ ~\E h \in groups : Len(h) = Len(g) + 1 /\ SubSeq(h, 1, Len(g)) = g

\* remove_empty_groups: clean_empty_groups is repeated until it removes nothing;
\* it never looks at created_groups.
RECURSIVE RemoveEmptyGroups(_, _)
RemoveEmptyGroups(groups, layers) ==
    LET empty == {g \in groups : LdIsEmpty(g, groups, layers)}
    IN IF empty = {} THEN groups ELSE RemoveEmptyGroups(groups \ empty, layers)

\* The state a load works on: the layer tree, created_groups, loaded_count,
\* total_files and whether an exception is on its way to load_layers.
LdState(groups, layers, created) ==
    [groups |-> groups, layers |-> layers, created |-> created,
     count |-> 0, total |-> 0, raised |-> FALSE]

\* addGroup followed by created_groups.add
LdAddGroup(st, g) ==
    [st EXCEPT !.groups = @ \cup {g}, !.created = @ \cup {g}]

\* create_layer_group: the top-level group of the folder name, made if missing.
CreateLayerGroup(st, folder) ==
    IF <<folder>> \in st.groups THEN st ELSE LdAddGroup(st, <<folder>>)

\* load_layer and the `loaded_count += 1` of its caller.
LoadLayer(st, f, group, w) ==
    LET ext == Lower(SplitExt(f.name))
        vector == ext \in {LdShp, LdGml, LdGpkg, LdDbf, LdXlsx}
        st1 == [st EXCEPT !.created = {}]
        layers == st.layers \cup {[group |-> group, file |-> f.name, from |-> <<>>]}
    IN IF ~(vector \/ ext = LdTif) THEN st1
       ELSE IF ~f.valid THEN st1
       ELSE IF ~CheckGeometryFilter(vector, f.geom, w) THEN st1
       ELSE [st1 EXCEPT !.layers = layers,
                        !.groups = IF w.llcheckgroup
                                   THEN RemoveEmptyGroups(@, layers) ELSE @,
                        !.count = @ + 1]

\* The time extractall gives the extracted files.
LdNow == 2

\* The loop over found_files of process_compressed_file.
RECURSIVE LdLoadFound(_, _, _, _, _)
LdLoadFound(st, found, group, archive, w) ==
    IF found = <<>> THEN st
    ELSE LET f == Head(found)
             vector == Lower(SplitExt(f.name)) # LdTif
             st1 == IF f.valid /\ CheckGeometryFilter(vector, f.geom, w)
                    THEN [st EXCEPT
                            !.layers = @ \cup {[group |-> group, file |-> f.name,
                                                from |-> archive]},
                            !.count = @ + 1]
                    ELSE st
         IN LdLoadFound(st1, Tail(found), group, archive, w)

\* process_compressed_file: only zip and tar archives are opened; an archive
\* that cannot be read raises inside the try and loads nothing.
ProcessCompressedFile(st, f, parent, w) ==
    LET lname == Lower(f.name)
        opened == EndsWith(lname, LdZip) \/ EndsWith(lname, LdTar)
        group == IF w.llcheckgroup THEN parent \o <<f.name>> ELSE parent
        st1 == IF w.llcheckgroup THEN LdAddGroup(st, group) ELSE st
        Found(g) == /\ CheckExtension(g.name, w)
                    /\ CheckNameFilter(g.name, w)
                    /\ CheckDateFilter(LdNow, w)
    IN IF ~opened \/ ~f.valid THEN st
       ELSE LdLoadFound(st1, SelectSeq(f.inner, Found), group, f.name, w)

\* The loop `for file in files` of process_files over one directory.
RECURSIVE LdWalk(_, _, _, _)
LdWalk(st, files, group, w) ==
    IF files = <<>> \/ st.raised THEN st
    ELSE LET f == Head(files)
             st1 == [st EXCEPT !.total = @ + 1]
             st2 == IF IsArchive(f.name)
                    THEN IF w.llchecknest
                         THEN ProcessCompressedFile(st1, f, group, w) ELSE st1
                    ELSE IF ~CheckExtension(f.name, w) THEN st1
                    ELSE IF ~CheckNameFilter(f.name, w) THEN st1
                    \* os.path.getmtime of a dangling link raises
                    ELSE IF w.llcheckdate /\ f.dangling
                         THEN [st1 EXCEPT !.raised = TRUE]
                    ELSE IF ~CheckDateFilter(f.mtime, w) THEN st1
                    ELSE LoadLayer(st1, f, group, w)
         IN LdWalk(st2, Tail(files), group, w)

\* The scanned directory and its one subdirectory.
LdDirName == <<"d">>
LdSubName == <<"s">>

\* process_files: the directory, then with llchecknest its subdirectory.
ProcessFiles(st, files, w) ==
    LET InTop(f) == ~f.sub
        InSub(f) == f.sub
        parent == IF w.llcheckgroup THEN <<LdDirName>> ELSE <<>>
        st1 == IF w.llcheckgroup THEN CreateLayerGroup(st, LdDirName) ELSE st
        st2 == LdWalk(st1, SelectSeq(files, InTop), parent, w)
        current == IF w.llcheckgroup THEN parent \o <<LdSubName>> ELSE <<>>
        st3 == IF w.llcheckgroup /\ current \notin st2.groups
               THEN LdAddGroup(st2, current) ELSE st2
    IN IF w.llchecknest /\ SelectSeq(files, InSub) # <<>> /\ ~st2.raised
       THEN LdWalk(st3, SelectSeq(files, InSub), current, w)
       ELSE st2

\* The files the model puts on the disk.
LdFile(name, sub, mtime, valid, geom) ==
    [name |-> name, sub |-> sub, mtime |-> mtime, valid |-> valid, geom |-> geom,
     dangling |-> FALSE, inner |-> <<>>]

\* The files of the directory, in the order os.walk lists them.
LdCatalogue ==
    << LdFile(<<"a">> \o LdShp, FALSE, 1, TRUE, 0),
       LdFile(<<"b", ".", "S", "H", "P">>, FALSE, 2, TRUE, 2),
       LdFile(<<"a">> \o LdTif, TRUE, 0, TRUE, 3),
       LdFile(<<"b">> \o LdDbf, FALSE, 1, TRUE, 4),
       [LdFile(<<"b">> \o LdShp, FALSE, 0, FALSE, 3) EXCEPT !.dangling = TRUE],
       [LdFile(<<"a">> \o LdZip, FALSE, 1, TRUE, 3) EXCEPT
           !.inner = <<LdFile(<<"c">> \o LdShp, FALSE, LdNow, TRUE, 1)>>] >>

RECURSIVE LdListing(_)
LdListing(S) ==
    IF S = {} THEN <<>>
    ELSE LET m == CHOOSE i \in S : \A j \in S : i <= j
         IN <<LdCatalogue[m]>> \o LdListing(S \ {m})

\* The directory listings: up to MaxFiles of the files.
LdListings ==
    {LdListing(S) : S \in {T \in SUBSET DOMAIN LdCatalogue : Cardinality(T) <= MaxFiles}}

\* The layer trees a project has before a load: empty, or with an empty
\* group, a group holding a layer and a group holding only an empty group.
LdOldLayer == [group |-> <<<<"k">>>>, file |-> <<"x">>, from |-> <<>>]
LdTrees ==
    { [groups |-> {}, layers |-> {}],
      [groups |-> {<<<<"o">>>>, <<<<"k">>>>, <<<<"p">>>>, <<<<"p">>, <<"q">>>>},
       layers |-> {LdOldLayer}] }

LdNoDialog ==
    [exts |-> {}, llchecktext |-> FALSE, lltext |-> <<>>, llcheckdate |-> FALSE,
     lldate |-> 1, llcheckgeom |-> FALSE, llgeom |-> "any", llcheckgroup |-> FALSE,
     llchecknest |-> FALSE, llsource |-> ""]

\* The widget values a user can bring about: toggle_text_filter empties a
\* disabled text field, update_geometry_filter_availability unchecks the
\* geometry filter when no shp, gml or gpkg box is checked.
LdDialogs ==
    {w \in [exts : {{}, {LdShp}, {LdShp, LdTif}, LdExtensions},
            llchecktext : BOOLEAN,
            lltext : {<<>>, <<" ">>, <<"A">>, <<"b", " ">>},
            llcheckdate : BOOLEAN, lldate : {1, 2},
            llcheckgeom : BOOLEAN, llgeom : {"any", "Point", "Polygon"},
            llcheckgroup : BOOLEAN, llchecknest : BOOLEAN,
            llsource : {"", "dir", "file", "missing"}] :
        /\ (~w.llchecktext => w.lltext = <<>>)
        /\ (w.llcheckgeom => w.exts \cap {LdShp, LdGml, LdGpkg} # {})
        \* a disabled widget keeps its first value in the model
        /\ (~w.llcheckdate => w.lldate = 1)
        /\ (~w.llcheckgeom => w.llgeom = "any")
        \* the scanned directory is varied in full, the other sources with
        \* the filters off
        /\ (w.llsource # "dir" =>
               /\ ~w.llchecktext /\ ~w.llcheckdate /\ ~w.llcheckgeom
               /\ w.exts \in {{}, LdExtensions})
        /\ (w.llsource = "dir" => w.exts # {})}

\* The loader before any use, when a behaviour is about another tool.
LdIdle ==
    /\ ldDialog = LdNoDialog /\ ldFiles = <<>>
    /\ ldGroups = {} /\ ldLayers = {} /\ ldCreated = {}
    /\ ldPc = "idle" /\ ldRunEnabled = TRUE /\ ldLoaded = 0 /\ ldTotal = 0
    /\ ldOutcome = "none" /\ ldBefore = [groups |-> {}, layers |-> {}]

\* The dialog after __init__ and the user's choices; created_groups is empty.
LdInit ==
    /\ ldDialog \in LdDialogs
    /\ ldFiles \in LdListings
    /\ (ldDialog.llsource = "file" => Len(ldFiles) = 1)
    /\ (ldDialog.llsource \in {"", "missing"} => ldFiles = <<>>)
    /\ \E t \in LdTrees : ldGroups = t.groups /\ ldLayers = t.layers
    /\ ldCreated = {}
    /\ ldPc = "idle" /\ ldRunEnabled = TRUE /\ ldLoaded = 0 /\ ldTotal = 0
    /\ ldOutcome = "none" /\ ldBefore = [groups |-> ldGroups, layers |-> ldLayers]

\* load_layers returns on one of its two warnings, before toggle_controls.
LdWarning ==
    /\ tool = "loader" /\ ldPc = "idle" /\ ldRunEnabled
    /\ (ldDialog.llsource = "" \/ ldDialog.exts = {})
    /\ ldPc' = "done"
    /\ ldOutcome' = "warning"
    /\ UNCHANGED <<ldDialog, ldFiles, ldGroups, ldLayers, ldCreated, ldRunEnabled,
                   ldLoaded, ldTotal, ldBefore>>
    /\ UNCHANGED <<tool, lrVars, ocVars, miVars, bcVars, feVars>>

\* load_layers passes its checks: toggle_controls(False) and the progress popup.
LdStart ==
    /\ tool = "loader" /\ ldPc = "idle" /\ ldRunEnabled
    /\ ldDialog.llsource # "" /\ ldDialog.exts # {}
    /\ ldPc' = "running"
    /\ ldRunEnabled' = FALSE
    /\ ldBefore' = [groups |-> ldGroups, layers |-> ldLayers]
    /\ UNCHANGED <<ldDialog, ldFiles, ldGroups, ldLayers, ldCreated, ldLoaded,
                   ldTotal, ldOutcome>>
    /\ UNCHANGED <<tool, lrVars, ocVars, miVars, bcVars, feVars>>

\* The try block of load_layers on the source path.
LdTry(st, files, w) ==
    IF w.llsource = "dir" THEN ProcessFiles(st, files, w)
    ELSE IF w.llsource = "file"
    THEN LET f == files[1]
             st1 == [st EXCEPT !.total = 1]
         IN IF IsArchive(f.name) THEN ProcessCompressedFile(st1, f, <<>>, w)
            ELSE IF ~CheckExtension(f.name, w) THEN st1
            ELSE IF ~CheckNameFilter(f.name, w) THEN st1
            ELSE IF w.llcheckdate /\ f.dangling THEN [st1 EXCEPT !.raised = TRUE]
            ELSE IF ~CheckDateFilter(f.mtime, w) THEN st1
            ELSE LoadLayer(st1, f, <<>>, w)
    ELSE st

\* load_layers from the try to its return: the load, remove_empty_groups when
\* nothing was raised, the except clause, and toggle_controls(True) with the
\* final message in the finally clause.
LdRun ==
    /\ tool = "loader" /\ ldPc = "running"
    /\ \E st \in {LdTry(LdState(ldGroups, ldLayers, ldCreated), ldFiles, ldDialog)} :
          /\ ldLayers' = st.layers
          /\ ldCreated' = st.created
          /\ ldGroups' = IF ~st.raised /\ ldDialog.llcheckgroup
                         THEN RemoveEmptyGroups(st.groups, st.layers)
                         ELSE st.groups
          /\ ldLoaded' = IF st.raised THEN 0 ELSE st.count
          /\ ldTotal' = IF st.raised THEN 0 ELSE st.total
          /\ ldOutcome' = IF st.raised THEN "error"
                          ELSE IF st.count > 0 THEN "completed" ELSE "none_loaded"
    /\ ldRunEnabled' = TRUE
    /\ ldPc' = "done"
    /\ UNCHANGED <<ldDialog, ldFiles, ldBefore>>
    /\ UNCHANGED <<tool, lrVars, ocVars, miVars, bcVars, feVars>>

(***************************************************************************)
(* Specifications                                                          *)
(***************************************************************************)
InitRenamer == tool = "renamer" /\ LrInit /\ OcIdle /\ MiIdle /\ BcIdle /\ FeIdle /\ LdIdle

NextRenamer ==
    \/ RenameNoSelection
    \/ RenameNotANumber
    \/ RenameNoParameter
    \/ RenameDeclined
    \/ RenameStart
    \/ RenameLayers
    \/ RenameAcknowledge

SpecRenamer == InitRenamer /\ [][NextRenamer]_vars

InitOverlaps == tool = "overlaps" /\ OcIdle /\ LrIdle /\ MiIdle /\ BcIdle /\ FeIdle /\ LdIdle

NextOverlaps ==
    \/ OcStart
    \/ OcCancel
    \/ OcRunChild
    \/ OcChildRaises
    \/ OcCheck

SpecOverlaps == InitOverlaps /\ [][NextOverlaps]_vars

InitMapinfo == tool = "mapinfo" /\ MiInit /\ LrIdle /\ OcIdle /\ BcIdle /\ FeIdle /\ LdIdle

NextMapinfo ==
    \/ MiEnter
    \/ MiStrategy1
    \/ MiStrategy2Prepare
    \/ MiStrategy2Convert
    \/ MiStrategy3

SpecMapinfo == InitMapinfo /\ [][NextMapinfo]_vars

InitConverter == tool = "converter" /\ BcInit /\ LrIdle /\ OcIdle /\ MiIdle /\ FeIdle /\ LdIdle

NextConverter ==
    \/ BcSetFormat
    \/ BcToggleCheckbox
    \/ BcAddSourceFiles
    \/ BcStartWarning
    \/ BcStart
    \/ BcDecline
    \/ BcConfirm
    \/ BcOverwrite
    \/ BcBeginRow
    \/ BcConvertRow
    \/ BcFinish

SpecConverter == InitConverter /\ [][NextConverter]_vars

InitExcluder == tool = "excluder" /\ FeInit /\ LrIdle /\ OcIdle /\ MiIdle /\ BcIdle /\ LdIdle

NextExcluder ==
    \/ FeSetTolerance
    \/ FeToggleCheckGeom
    \/ FeSelectRelation
    \/ FeSelectMatchLayer
    \/ FeRunWarning
    \/ FeRunClicked
    \/ FeAnswerSame
    \/ FeSelectAll
    \/ FeSelectByGeometry
    \/ FeClickRow
    \/ FeClose
    \/ FeDelete
    \/ FeAnswerBackup

SpecExcluder == InitExcluder /\ [][NextExcluder]_vars

InitLoader ==
    tool = "loader" /\ LdInit /\ LrIdle /\ OcIdle /\ MiIdle /\ BcIdle /\ FeIdle

NextLoader ==
    \/ LdWarning
    \/ LdStart
    \/ LdRun

SpecLoader == InitLoader /\ [][NextLoader]_vars

\* The four tools with a dialog, each in a behaviour of its own.
InitDialogs == InitRenamer \/ InitConverter \/ InitExcluder \/ InitLoader

NextDialogs == NextRenamer \/ NextConverter \/ NextExcluder \/ NextLoader

SpecDialogs == InitDialogs /\ [][NextDialogs]_vars

\* The two tools whose controller keeps an attribute besides its widgets
\* (_crs_forced_by_csv, created_groups), each in a behaviour of its own.
InitAttributes == InitConverter \/ InitLoader

NextAttributes == NextConverter \/ NextLoader

SpecAttributes == InitAttributes /\ [][NextAttributes]_vars

(***************************************************************************)
(* Claims                                                                  *)
(***************************************************************************)

\* The name the claim C10 gives a layer: the steps in the claim's order.
C10_DropLeft(s, k) == IF Len(s) > k THEN SubSeq(s, k + 1, Len(s)) ELSE <<>>

C10_DropRight(s, k) == IF Len(s) > k THEN SubSeq(s, 1, Len(s) - k) ELSE <<>>

C10_ReplaceAll(s, old, new) == IF old = <<>> THEN s ELSE StrReplace(s, old, new)

C10_Name(old, a) ==
    a.prefix
    \o C10_ReplaceAll(C10_DropRight(C10_DropLeft(old, a.left), a.right),
                      a.search, a.replace)
    \o a.suffix

C1_Count(status) == Cardinality({r \in BcRowSet : bcTable[r].status = status})

\* C1: once the user has confirmed and the loop over the rows is entered, the
\* run of start_conversion ends with the completion message, whatever fails
\* while a file is converted; then the file of every row was processed exactly
\* once, every row is "Completato" or "Errore", success_count + error_count is
\* the number of rows and success_count is the number of "Completato" rows.
\* While the loop runs, no file is processed twice.
C1_BatchSurvivesRowFailures ==
    /\ \A f \in BcRowSet : bcProcessed[f] <= 1
    /\ (bcLoopEntered /\ bcPc = "idle") =>
          /\ bcOutcome = "completed"
          /\ \A r \in BcRowSet :
                /\ bcProcessed[r] = 1
                /\ bcTable[r].status \in {"Completato", "Errore"}
          /\ bcSuccess + bcError = bcRows
          /\ bcSuccess = C1_Count("Completato")
          /\ bcError = C1_Count("Errore")

\* C1, for a table that is not sorted by column "Stato": the same statement.
C1_WhenNotSortedByStatus == bcSort = "other" => C1_BatchSurvivesRowFailures

\* The features deleted from the source layer, and the feature ids of the
\* rows that were selected when the review dialog was left.
C2_Deleted == FeFids \ feVisible

C2_SelectedFids == {ParseInt(feTable[i].fid) : i \in feSelected}

\* C2: the features deleted from the source layer are among the candidates of
\* the review table; when exclude_features reports "Operation completed" they
\* are exactly the features of the rows selected when the delete button was
\* pressed; when the review dialog is closed or no row is selected, nothing is
\* deleted and the source layer is unchanged, its edit session as it was when
\* the run started.
C2_DeletesTheSelectedRows ==
    /\ C2_Deleted \subseteq feCandidates
    /\ feOutcome = "completed" => C2_Deleted = C2_SelectedFids
    /\ feOutcome \in {"cancelled", "none_selected"} =>
          /\ feVisible = FeFids /\ feProvider = FeFids
          /\ feEditable = feRun.edit

\* C2, for a source layer whose edit session starts: the same statement.
C2_WhenTheLayerCanBeEdited ==
    /\ C2_Deleted \subseteq feCandidates
    /\ (feOutcome = "completed" /\ \A i \in DOMAIN feLog : feLog[i] # "edit_refused") =>
          C2_Deleted = C2_SelectedFids
    /\ feOutcome \in {"cancelled", "none_selected"} =>
          /\ feVisible = FeFids /\ feProvider = FeFids
          /\ feEditable = feRun.edit

\* The feature of the comparison layer with id g, as the analysis saw it.
C3_Cmp(g) == IF feSame THEN feSrc[g] ELSE feCmp[g]

\* The string form of a join value, lower-cased unless the option is checked.
C3_Form(v, caseSensitive) == IF caseSensitive THEN Str(v) ELSE Lower(Str(v))

\* C3: after the analysis the candidates are exactly the source features whose
\* join value is not NULL and has the same string form (lower-cased unless the
\* case-sensitive option is checked) as the join value, not NULL, of some
\* feature of the comparison layer; the geometry check plays no part.
C3_CandidatesAreTheJoinMatches ==
    feRun.analysed =>
       feCandidates =
          {f \in FeFids :
              /\ feSrc[f].value # FeNull
              /\ \E g \in FeFids :
                    /\ C3_Cmp(g).value # FeNull
                    /\ C3_Form(C3_Cmp(g).value, feRun.case)
                       = C3_Form(feSrc[f].value, feRun.case)}

\* A review with the geometry check on where a text matched an integer, a
\* row is geometry-different and a source feature with a NULL value is left out.
C3_Witness ==
    /\ tool = "excluder" /\ fePc = "review" /\ feRun.check /\ ~feSame
    /\ feCandidates = {12} /\ feDifferent = {12}
    /\ feSrc[12].value = FeInt(1) /\ feSrc[1].value = FeNull

\* A review without the case option where "a" matched "A".
C3_WitnessCase ==
    /\ tool = "excluder" /\ fePc = "review" /\ ~feRun.case /\ ~feSame
    /\ \E f \in feCandidates :
          /\ feSrc[f].value = FeText(<<"a">>)
          /\ \A g \in FeFids : feCmp[g].value \in {FeNull, FeText(<<"A">>)}

\* C4: with the backup option checked the backup is attempted before the
\* deletion; after a failed backup and the answer No nothing is deleted, and
\* a deletion after a failed backup follows the answer Yes.
C4_BackupBeforeDeletion ==
    LET at(e) == {i \in DOMAIN feLog : feLog[i] = e}
    IN /\ (feRun.bkp /\ at("delete") # {}) =>
             \A d \in at("delete") :
                \E b \in at("backup_ok") \cup at("backup_failed") : b < d
       /\ at("answer_no") # {} =>
             /\ at("delete") = {} /\ C2_Deleted = {}
             /\ feProvider = FeFids /\ feEditable = feRun.edit
       /\ (at("backup_failed") # {} /\ at("delete") # {}) =>
             \A d \in at("delete") :
                \E b \in at("backup_failed"), y \in at("answer_yes") : b < y /\ y < d
       /\ (C2_Deleted # {} /\ feRun.bkp) => at("delete") # {}

\* The backup failed, the user answered No and exclude_features returned.
C4_Witness ==
    /\ tool = "excluder" /\ fePc = "done" /\ feOutcome = "backup_declined"
    /\ feRun.bkp /\ feLog = <<"backup_failed", "answer_no">>
    /\ feToDelete # {}

\* The backup failed, the user answered Yes and the features were deleted.
C4_WitnessYes ==
    /\ tool = "excluder" /\ feOutcome = "completed"
    /\ feLog = <<"backup_failed", "answer_yes", "delete">>
    /\ C2_Deleted # {}

\* The comparison feature whose id match_features holds for source feature f.
C5_MatchOf(f) ==
    LET same == {g \in FeFids :
                    /\ C3_Cmp(g).value # FeNull
                    /\ C3_Form(C3_Cmp(g).value, feRun.case)
                       = C3_Form(feSrc[f].value, feRun.case)}
    IN CHOOSE g \in same : \A h \in same : h <= g

\* C5: with the geometry check on and tolerance 0, a candidate with a geometry
\* whose matching feature has a geometry is geometry-different exactly when
\* the two geometries are not equal, whatever the combobox shows.
C5_ZeroToleranceIsEquality ==
    (feRun.analysed /\ feRun.check /\ feRun.tol = 0) =>
       \A f \in feCandidates :
          (feSrc[f].geom.present /\ C3_Cmp(C5_MatchOf(f)).geom.present) =>
             (f \in feDifferent <=>
                 ~GeomEquals(feSrc[f].geom, C3_Cmp(C5_MatchOf(f)).geom))

\* Tolerance 0 with "contains" shown in the combobox: the equal pair is not
\* geometry-different, the other pair is.
C5_Witness ==
    /\ tool = "excluder" /\ fePc = "review" /\ ~feSame
    /\ feRun.check /\ feRun.tol = 0 /\ feSpat = "contains"
    /\ \E f \in feCandidates :
          /\ f \in feDifferent
          /\ feSrc[f].geom = FeSeg(3, 3)
          /\ C3_Cmp(C5_MatchOf(f)).geom = FeSeg(0, 2)
    /\ \E f \in feCandidates :
          /\ f \notin feDifferent
          /\ feSrc[f].geom = FeSeg(0, 2)
          /\ C3_Cmp(C5_MatchOf(f)).geom = FeSeg(0, 2)

\* C6: with the geometry check on and a tolerance above 0 the run uses the
\* relation shown in the combobox, never the distance: with "intersects" a
\* pair is not different iff one geometry intersects the other one buffered
\* by the tolerance, with "contains" iff the buffered source geometry contains
\* the comparison geometry.
C6_ToleranceUsesTheRelation ==
    (feRun.analysed /\ feRun.check /\ feRun.tol > 0) =>
       /\ feRun.relation = feSpat
       /\ feRun.relation \in {"intersects", "contains"}
       /\ \A f \in feCandidates :
             LET sg == feSrc[f].geom
                 mg == C3_Cmp(C5_MatchOf(f)).geom
             IN (sg.present /\ mg.present) =>
                   (f \notin feDifferent <=>
                       IF feSpat = "intersects"
                       THEN \/ Intersects(sg, Buffer(mg, feRun.tol))
                            \/ Intersects(mg, Buffer(sg, feRun.tol))
                       ELSE Contains(Buffer(sg, feRun.tol), mg))

\* "contains" with tolerance 1: the pair at distance 1 is geometry-different
\* though it is within the tolerance.
C6_Witness ==
    /\ tool = "excluder" /\ fePc = "review" /\ ~feSame
    /\ feRun.check /\ feRun.tol = 1 /\ feRun.relation = "contains"
    /\ \E f \in feCandidates :
          /\ f \in feDifferent
          /\ feSrc[f].geom = FeSeg(3, 3)
          /\ C3_Cmp(C5_MatchOf(f)).geom = FeSeg(0, 2)

\* "intersects" with tolerance 1: the same pair is not geometry-different.
C6_WitnessIntersects ==
    /\ tool = "excluder" /\ fePc = "review" /\ ~feSame
    /\ feRun.check /\ feRun.tol = 1 /\ feRun.relation = "intersects"
    /\ \E f \in feCandidates :
          /\ f \notin feDifferent
          /\ feSrc[f].geom = FeSeg(3, 3)
          /\ C3_Cmp(C5_MatchOf(f)).geom = FeSeg(0, 2)

\* C7: with the same layer as source and comparison layer, every feature
\* listed in the review table shares its join value with another feature of
\* the layer.
C7_OnlyDuplicatesAreListed ==
    (feRun.analysed /\ feSame) =>
       \A f \in feCandidates :
          \E g \in FeFids \ {f} :
             /\ feSrc[g].value # FeNull
             /\ C3_Form(feSrc[g].value, feRun.case) = C3_Form(feSrc[f].value, feRun.case)

\* C8: convert_to_mapinfo tries its three strategies in the fixed order 1, 2, 3;
\* a strategy is tried only when every earlier one has failed; True is returned
\* as soon as a strategy succeeds and False when those tried have all failed;
\* the call never raises.
C8_ThreeStrategies ==
    /\ miResult # "raised"
    /\ miAttempted = [i \in 1..Len(miAttempted) |-> i]
    /\ \A i \in 1..Len(miAttempted) :
          \A j \in 1..(i - 1) : miAttempted[j] \notin miSucceeded
    /\ (miPc = "returned" /\ miSucceeded # {}) => miResult = "True"
    /\ miResult = "True" => miSucceeded # {}

\* The part of C8 about the order alone: a strategy is tried only when every
\* earlier one has failed, and a success is returned as True.
C8_LaterOnlyAfterFailure ==
    /\ \A i \in 1..Len(miAttempted) :
          \A j \in 1..(i - 1) : miAttempted[j] \notin miSucceeded
    /\ (miPc = "returned" /\ miSucceeded # {}) => miResult = "True"

\* C9: the children run in the order of the code; a cancelled feedback seen at
\* one of the six checks ends the run with an empty result and no further
\* child; nothing runs after the return; the result holds the key
\* InfrastrutturaConNcavi only when the seven children have run.
C9_Inv ==
    /\ Len(ocRan) <= Len(OcChildren)
    /\ OcNames(ocRan) = SubSeq(OcChildren, 1, Len(ocRan))
    /\ (ocResult = "InfrastrutturaConNcavi" => OcNames(ocRan) = OcChildren)
    /\ (ocResult = "empty" => ocCanceled /\ Len(ocRan) \in 1..6)

C9_Step ==
    /\ (ocPc = "check" /\ ocCanceled) =>
          (ocPc' = "returned" /\ ocResult' = "empty" /\ ocRan' = ocRan)
    /\ (ocPc = "returned") => (ocRan' = ocRan /\ ocResult' = ocResult)
    /\ Len(ocRan') \in {Len(ocRan), Len(ocRan) + 1}

C9_CancelStopsTheRun == [](C9_Inv) /\ [][C9_Step]_vars

\* The run is cancelled while the third child runs and returns empty.
C9_Witness ==
    /\ tool = "overlaps" /\ ocPc = "returned" /\ ocResult = "empty"
    /\ ocCanceledAt = <<"run", 2>> /\ Len(ocRan) = 3

(***************************************************************************)
(* C11                                                                     *)
(***************************************************************************)
\* The layer nodes the load added for a file of the scanned directory.
C11_Added(f) ==
    \E l \in ldLayers \ ldBefore.layers : l.file = f.name /\ l.from = <<>>

C11_Ext(f) == Lower(SplitExt(f.name))

\* The name filter as the sentence words it: the text itself is looked up.
C11_NamePassesAsStated(f) ==
    \/ ~ldDialog.llchecktext
    \/ ldDialog.lltext = <<>>
    \/ IsSubstring(Lower(ldDialog.lltext), Lower(f.name))

\* The name filter on the text without its surrounding blanks.
C11_NamePasses(f) ==
    \/ ~ldDialog.llchecktext
    \/ Strip(ldDialog.lltext) = <<>>
    \/ IsSubstring(Lower(Strip(ldDialog.lltext)), Lower(f.name))

C11_Rule(f, namePasses) ==
    /\ C11_Ext(f) \in {LdShp, LdGml, LdGpkg, LdTif, LdXlsx, LdDbf}
    /\ C11_Ext(f) \in ldDialog.exts
    /\ namePasses
    /\ (~ldDialog.llcheckdate \/ f.mtime >= ldDialog.lldate)
    /\ f.valid
    /\ CheckGeometryFilter(C11_Ext(f) # LdTif, f.geom, ldDialog)

C11_Holds(asStated) ==
    (ldPc = "done" /\ ldDialog.llsource = "dir") =>
        /\ \A i \in DOMAIN ldFiles :
              LET f == ldFiles[i]
              IN IF C11_Ext(f) \in LdArchiveExtensions
                 THEN ~C11_Added(f)
                 ELSE C11_Added(f) =>
                         C11_Rule(f, IF asStated THEN C11_NamePassesAsStated(f)
                                     ELSE C11_NamePasses(f))
        /\ (ldOutcome # "error" =>
               ldLoaded = Cardinality(ldLayers \ ldBefore.layers))

\* C11, amended: after process_files, a file of the directory that is not an
\* archive is in the project only if its lower-cased extension is one of the
\* six and that box is checked, the name filter passes (filter off, text empty
\* once its surrounding blanks are stripped, or the stripped text contained
\* case-insensitively in the file name), the date filter passes (off, or
\* modification time >= the chosen date), the layer is valid and the geometry
\* filter passes; an archive is never a layer; the returned count is the
\* number of layers added.
C11_FiltersDecideTheLoad == C11_Holds(FALSE)

\* A load with the name, date and geometry filters on and blanks around the
\* filter text, in which one file was added and another was not.
C11_Witness ==
    /\ ldPc = "done" /\ ldDialog.llsource = "dir" /\ ldOutcome = "completed"
    /\ ldDialog.llchecktext /\ ldDialog.lltext = <<"b", " ">>
    /\ ldDialog.llcheckdate /\ ldDialog.llcheckgeom
    /\ \E i, j \in DOMAIN ldFiles :
          /\ C11_Added(ldFiles[i])
          /\ ~C11_Added(ldFiles[j]) /\ C11_Ext(ldFiles[j]) \in ldDialog.exts

\* C11 as stated: the same, with the name filter passing only when the filter
\* is off, the text is empty, or the text as typed is contained
\* case-insensitively in the file name.
C11_AsStated == C11_Holds(TRUE)

(***************************************************************************)
(* C12                                                                     *)
(***************************************************************************)
\* C12: when load_layers has returned, every group the project had before the
\* load is still in the layer tree, empty or not, every layer node it had is
\* still there, and after a load with the group option no group the load
\* added is left empty.
C12_OnlyCreatedGroupsAreRemoved ==
    ldPc = "done" =>
        /\ ldBefore.groups \subseteq ldGroups
        /\ ldBefore.layers \subseteq ldLayers
        /\ (ldDialog.llcheckgroup /\ ldOutcome \in {"completed", "none_loaded"} =>
               \A g \in ldGroups \ ldBefore.groups : ~LdIsEmpty(g, ldGroups, ldLayers))

\* The part of C12 the code keeps: no layer node is removed and no group the
\* load added is left empty.
C12_LayersStayAndCreatedEmptyGroupsGo ==
    ldPc = "done" =>
        /\ ldBefore.layers \subseteq ldLayers
        /\ (ldDialog.llcheckgroup /\ ldOutcome \in {"completed", "none_loaded"} =>
               \A g \in ldGroups \ ldBefore.groups : ~LdIsEmpty(g, ldGroups, ldLayers))

C13_WitnessOthers ==
    \/ tool = "converter" /\ bcPc = "idle" /\ bcOutcome = "aborted"
    \/ tool = "loader" /\ ldPc = "done" /\ ldOutcome = "error"
    \/ tool = "renamer" /\ lrOutcome = "done" /\ lrErrors # {}

(***************************************************************************)
(* C14                                                                     *)
(***************************************************************************)
\* What a load leaves behind and reports.
C14_LoadEffect(created) ==
    LET st == LdTry(LdState(ldGroups, ldLayers, created), ldFiles, ldDialog)
    IN <<st.groups, st.layers, st.count, st.total, st.raised>>

C16_TableAndLabelUnchanged ==
    bcRows' = bcRows /\ bcTable' = bcTable /\ bcCount' = bcCount

\* C16: a call of add_source_files that ends with the warning about the
\* source directory, with the warning that no file type is checked, or with
\* the information that no file was found leaves the file table and the
\* file-count label exactly as they were before the call.
C16_ValidatesBeforeItChanges ==
    [][(BcAddSourceFiles
          /\ bcOutcome' \in {"warning", "add_warning_types",
                             "add_none_found"})
        => C16_TableAndLabelUnchanged]_vars

\* C16, for the warning about the source directory only: the same statement.
C16_InvalidDirectoryChangesNothing ==
    [][(BcAddSourceFiles /\ bcOutcome' = "warning")
        => C16_TableAndLabelUnchanged]_vars

====
